---- MODULE Spec2Model ----
(***************************************************************************)
(* Dengo: a MongoDB-style Collection over Deno KV (kv.ts).                 *)
(*                                                                         *)
(* The KV store is one ordered keyspace holding three kinds of entries:    *)
(*   <<collection, id>>                          the documents             *)
(*   <<"__indexes__", collection, name>>         the index metadata        *)
(*   <<collection, "__idx__", field, sval, id>>  the index entries         *)
(* Every Collection method is an async function that may be suspended at   *)
(* each KV call (get, set, delete, list, atomic commit).  A process of the *)
(* model runs one method at a time, one KV call per step.                  *)
(***************************************************************************)
EXTENDS Integers, Sequences, FiniteSets, TLC

VARIABLES kv, writes, pc, op, loc, res, nops, serial

vars == <<kv, writes, pc, op, loc, res, nops, serial>>

\* ------------------------------------------------------------------------
\* Bounds
\* ------------------------------------------------------------------------
NumProcs == 2
MaxOps == 3
MaxBatch == 2

Procs == 1..NumProcs

\* ------------------------------------------------------------------------
\* Values
\* ------------------------------------------------------------------------
CollectionName == "c"

\* ObjectIds are numbered; toString gives the string form used in KV keys
\* and in stored documents.
ObjectIds == 1..9

\* The _id values callers supply; new ObjectId() gives an id no caller
\* knows, a different one in every call.
CallerIds == {1, 2, 3}
generateId(call) == Cardinality(CallerIds) + call

\* Byte order of the other strings that occur as key parts.
StrOrder == <<"", "__idx__", "__indexes__", "c", "f", "f_1", "n", "n_1", "x", "y", "z">>

\* The numbers that occur as key parts: a number n stands in a key as
\* NumberKeyPart(n) and is ordered as the number.
KeyNumbers == 0..10
NumberKeyPart(n) == ToString(n)
KeyPartNumber(s) == CHOOSE i \in KeyNumbers : ToString(i) = s

StrRank(s) ==
  IF \E i \in KeyNumbers : ToString(i) = s
    THEN CHOOSE i \in KeyNumbers : ToString(i) = s
    ELSE 100 + (CHOOSE i \in DOMAIN StrOrder : StrOrder[i] = s)

NoValue == <<>>
NoVersion == 0
NoDoc == <<>>

serializeObjectId(id) == ToString(id)

deserializeObjectId(s) == CHOOSE i \in ObjectIds : ToString(i) = s

getKvKey(id) == <<CollectionName, serializeObjectId(id)>>

\* utils.getNestedValue for a top-level path: <<v>> when the path resolves
\* to the value v, Undefined when it does not.
Undefined == <<>>
Has(obj, path) == path \in DOMAIN obj
getNestedValue(obj, path) == IF path \in DOMAIN obj THEN <<obj[path]>> ELSE Undefined

setNestedValue(obj, path, value) ==
  [k \in (DOMAIN obj) \cup {path} |-> IF k = path THEN value ELSE obj[k]]

\* {...doc, _id: v}
WithId(doc, v) == setNestedValue(doc, "_id", v)

\* serializeIndexValue: strings are kept, null and undefined give "".
serializeIndexValue(value) == IF value = Undefined THEN "" ELSE value[1]

\* `${field}_${dir}` joined by "_", for the index specs of the model
IndexNameTable == [f |-> "f_1", n |-> "n_1"]
IndexName(key) == IndexNameTable[key[1]]

DupKeyField == [f |-> "Duplicate key error: f"]

\* ------------------------------------------------------------------------
\* The host KV
\* ------------------------------------------------------------------------
\* kv.get
KvGet(key) ==
  IF key \in DOMAIN kv
    THEN [value |-> kv[key].value, versionstamp |-> kv[key].versionstamp]
    ELSE [value |-> NoValue, versionstamp |-> NoVersion]

Exists(entry) == entry.versionstamp # NoVersion

IsPrefix(prefix, key) ==
  /\ Len(prefix) <= Len(key)
  /\ \A i \in 1..Len(prefix) : key[i] = prefix[i]

\* Tuple order of two keys with a common prefix of the listing
RECURSIVE KeyLessFrom(_, _, _)
KeyLessFrom(k1, k2, i) ==
  IF i > Len(k1) THEN i <= Len(k2)
  ELSE IF i > Len(k2) THEN FALSE
  ELSE IF k1[i] = k2[i] THEN KeyLessFrom(k1, k2, i + 1)
  ELSE StrRank(k1[i]) < StrRank(k2[i])

KeyLess(k1, k2) == KeyLessFrom(k1, k2, 1)

RECURSIVE SortKeys(_)
SortKeys(S) ==
  IF S = {} THEN <<>>
  ELSE LET m == CHOOSE k \in S : \A o \in S \ {k} : KeyLess(k, o)
       IN <<m>> \o SortKeys(S \ {m})

\* kv.list({prefix}): the entries under the prefix, in key order
KvList(prefix) ==
  LET keys == SortKeys({k \in DOMAIN kv : IsPrefix(prefix, k)})
  IN [i \in 1..Len(keys) |->
        [key |-> keys[i], value |-> kv[keys[i]].value,
         versionstamp |-> kv[keys[i]].versionstamp]]

\* A versionstamp is an opaque token that only has to differ from every
\* earlier versionstamp of the same key: the count of writes to the key.
NextVersion(key) == IF key \in DOMAIN writes THEN writes[key] + 1 ELSE 1

ChecksHold(checks) ==
  \A i \in DOMAIN checks : KvGet(checks[i].key).versionstamp = checks[i].versionstamp

\* The store after the mutations of one commit: sets is a sequence of
\* [key, value], dels a set of keys.
KvAfter(sets, dels) ==
  LET setKeys == {sets[i].key : i \in DOMAIN sets}
      last(k) == CHOOSE i \in DOMAIN sets :
                   sets[i].key = k /\ \A j \in DOMAIN sets : sets[j].key = k => j <= i
  IN [k \in ((DOMAIN kv) \ dels) \cup setKeys |->
        IF k \in setKeys
          THEN [value |-> sets[last(k)].value, versionstamp |-> NextVersion(k)]
          ELSE kv[k]]

WritesAfter(sets, dels) ==
  LET setKeys == {sets[i].key : i \in DOMAIN sets}
      touched == setKeys \cup (dels \cap DOMAIN kv)
  IN [k \in (DOMAIN writes) \cup touched |->
        IF k \in touched THEN NextVersion(k) ELSE writes[k]]

\* kv.atomic().check(...).set(...).delete(...).commit()
AtomicOk(checks) == ChecksHold(checks)

AtomicCommit(checks, sets, dels) ==
  IF AtomicOk(checks)
    THEN /\ kv' = KvAfter(sets, dels)
         /\ writes' = WritesAfter(sets, dels)
    ELSE UNCHANGED <<kv, writes>>

\* ------------------------------------------------------------------------
\* Processes: one Collection method call at a time
\* ------------------------------------------------------------------------
NoIndexInfo == [spec |-> [key |-> <<>>], options |-> [unique |-> FALSE, sparse |-> FALSE]]

LocInit(call) ==
  [call |-> call,        \* number of the call, for new ObjectId()
   method |-> "none",    \* the method whose body is running
   found |-> FALSE,      \* findOne returned a document
   doc |-> NoDoc,        \* the document findOne returned
   docVs |-> NoVersion,  \* versionstamp of the entry doc was read from
   vs |-> NoVersion,     \* currentEntry.versionstamp
   idx |-> <<>>,         \* index infos listed from "__indexes__"
   i |-> 1, j |-> 1,     \* position in idx, position in spec.key
   docs |-> <<>>,        \* documents listed or found
   docsVs |-> <<>>,      \* versionstamps the documents were read at
   d |-> 1,              \* position in docs
   entries |-> <<>>,     \* index entries listed
   e |-> 1,              \* position in entries
   results |-> <<>>,     \* results collected so far
   used |-> NoIndexInfo, \* the index find has chosen
   checks |-> <<>>,      \* checks of the atomic batch being built
   dels |-> {},          \* deletes of the atomic batch being built
   count |-> 0,          \* modifiedCount
   ids |-> <<>>,         \* insertedIds
   errors |-> <<>>,      \* writeErrors
   tasks |-> <<>>,       \* insertMany: where each insertDoc call stands
   wrote |-> {}]         \* keys this call has written

NoOp == [name |-> "none"]
NoRes == [status |-> "none", error |-> "", ret |-> <<>>]
Running == [status |-> "running", error |-> "", ret |-> <<>>]

Goto(p, label) == pc' = [pc EXCEPT ![p] = label]

Return(p, ret) ==
  /\ pc' = [pc EXCEPT ![p] = "idle"]
  /\ res' = [res EXCEPT ![p] = [status |-> "ok", error |-> "", ret |-> ret]]

Throw(p, msg) ==
  /\ pc' = [pc EXCEPT ![p] = "idle"]
  /\ res' = [res EXCEPT ![p] = [status |-> "error", error |-> msg, ret |-> <<>>]]

\* "_id" in filter && filter._id instanceof ObjectId
HasObjectId(filter) == Has(filter, "_id") /\ "lit" \in DOMAIN filter._id

FindOnePc(filter) == IF HasObjectId(filter) THEN "fo_get" ELSE "f_idx"

\* The first KV call of a method
EntryPc(o) ==
  CASE o.name = "insertOne" -> "io_get"
    [] o.name = "insertMany" -> "im_validate"
    [] o.name = "createIndex" -> "ci_get"
    [] o.name = "dropIndex" -> "di_delete"
    [] o.name \in {"findOne", "updateOne", "deleteOne"} -> FindOnePc(o.filter)
    [] o.name \in {"find", "updateMany", "deleteMany", "countDocuments"} -> "f_idx"
    [] o.name = "estimatedDocumentCount" -> "edc_list"

\* insertMany runs insertDoc for one document after the other (ordered)
\* or for all of them at once under Promise.all (unordered).
Task(at) == [at |-> at, idx |-> <<>>, i |-> 1, j |-> 1]

InitTasks(o) ==
  IF o.name # "insertMany" THEN <<>>
  ELSE [k \in DOMAIN o.docs |-> IF o.ordered /\ k > 1 THEN Task("wait") ELSE Task("get")]

\* A caller starts a method call.
Start(p, Menu) ==
  /\ pc[p] = "idle"
  /\ nops < MaxOps
  /\ \E m \in DOMAIN Menu :
       /\ op' = [op EXCEPT ![p] = Menu[m]]
       /\ pc' = [pc EXCEPT ![p] = EntryPc(Menu[m])]
       /\ loc' = [loc EXCEPT ![p] = [LocInit(nops + 1) EXCEPT
                                        !.method = Menu[m].name,
                                        !.tasks = InitTasks(Menu[m])]]
  /\ res' = [res EXCEPT ![p] = Running]
  /\ nops' = nops + 1
  /\ serial' = (serial /\ \A q \in Procs : pc[q] = "idle")
  /\ UNCHANGED <<kv, writes>>

\* ------------------------------------------------------------------------
\* updateIndexEntry, called from insertOne and from createIndex
\* ------------------------------------------------------------------------
\* const _id = doc._id || new ObjectId()
IdOfGenerated(doc, call) == generateId(call)
IdOf(doc, call) == IF Has(doc, "_id") THEN doc._id ELSE generateId(call)

UieDoc(p) ==
  IF op[p].name = "insertOne"
    THEN WithId(op[p].doc, IdOf(op[p].doc, loc[p].call))
    ELSE loc[p].docs[loc[p].d]

UieInfo(p) ==
  IF op[p].name = "insertOne"
    THEN loc[p].idx[loc[p].i]
    ELSE [spec |-> op[p].spec, options |-> op[p].options]

UiePc(info) == IF info.options.unique THEN "uie_check" ELSE "uie_set"

IndexPrefix(field, sval) == <<CollectionName, "__idx__", field, sval>>
IndexKey(field, sval, idStr) == <<CollectionName, "__idx__", field, sval, idStr>>

\* An entry under the prefix belongs to another document.
OtherIdUnder(entries, idStr) ==
  \E k \in DOMAIN entries : entries[k].value._id # idStr

\* for unique indexes: list the prefix, throw on an entry of another id
UpdateIndexEntryCheck(p) ==
  /\ pc[p] = "uie_check"
  /\ LET doc == UieDoc(p)
         field == UieInfo(p).spec.key[loc[p].j]
         sval == serializeIndexValue(getNestedValue(doc, field))
     IN IF OtherIdUnder(KvList(IndexPrefix(field, sval)), serializeObjectId(doc._id))
          THEN Throw(p, DupKeyField[field])
          ELSE Goto(p, "uie_set") /\ UNCHANGED res
  /\ UNCHANGED <<kv, writes, op, loc, nops, serial>>

\* kv.atomic().set(indexKey, {_id}).commit(), then the next field, the
\* next index (insertOne) or the next document (createIndex)
UpdateIndexEntrySet(p) ==
  /\ pc[p] = "uie_set"
  /\ LET doc == UieDoc(p)
         info == UieInfo(p)
         field == info.spec.key[loc[p].j]
         sval == serializeIndexValue(getNestedValue(doc, field))
         idStr == serializeObjectId(doc._id)
         indexKey == IndexKey(field, sval, idStr)
         l == [loc[p] EXCEPT !.wrote = @ \cup {indexKey}]
     IN /\ AtomicCommit(<<>>, <<[key |-> indexKey, value |-> [_id |-> idStr]]>>, {})
        /\ IF loc[p].j < Len(info.spec.key)
             THEN /\ loc' = [loc EXCEPT ![p] = [l EXCEPT !.j = @ + 1]]
                  /\ Goto(p, UiePc(info))
                  /\ UNCHANGED res
           ELSE IF op[p].name = "insertOne"
             THEN IF loc[p].i < Len(loc[p].idx)
                    THEN /\ loc' = [loc EXCEPT ![p] = [l EXCEPT !.i = @ + 1, !.j = 1]]
                         /\ Goto(p, UiePc(loc[p].idx[loc[p].i + 1]))
                         /\ UNCHANGED res
                    ELSE /\ loc' = [loc EXCEPT ![p] = l]
                         /\ Goto(p, "io_commit")
                         /\ UNCHANGED res
           ELSE IF loc[p].d < Len(loc[p].docs)
             THEN /\ loc' = [loc EXCEPT ![p] = [l EXCEPT !.d = @ + 1, !.j = 1]]
                  /\ Goto(p, UiePc(info))
                  /\ UNCHANGED res
             ELSE /\ loc' = [loc EXCEPT ![p] = l]
                  /\ Return(p, [name |-> IndexName(op[p].spec.key)])
  /\ UNCHANGED <<op, nops, serial>>

\* ------------------------------------------------------------------------
\* insertOne
\* ------------------------------------------------------------------------
IndexInfos(list) ==
  [k \in DOMAIN list |-> [spec |-> list[k].value.spec, options |-> list[k].value.options]]

\* const existing = await this.kv.get(key)
InsertOneGet(p) ==
  /\ pc[p] = "io_get"
  /\ LET key == getKvKey(IdOf(op[p].doc, loc[p].call))
     IN IF Exists(KvGet(key))
          THEN Throw(p, "Duplicate key error")
          ELSE Goto(p, "io_list") /\ UNCHANGED res
  /\ UNCHANGED <<kv, writes, op, loc, nops, serial>>

\* for await (const entry of this.kv.list({prefix: indexPrefix}))
InsertOneListIndexes(p) ==
  /\ pc[p] = "io_list"
  /\ LET idx == IndexInfos(KvList(<<"__indexes__", CollectionName>>))
     IN /\ loc' = [loc EXCEPT ![p] = [@ EXCEPT !.idx = idx, !.i = 1, !.j = 1]]
        /\ Goto(p, IF Len(idx) = 0 THEN "io_commit" ELSE UiePc(idx[1]))
  /\ UNCHANGED <<kv, writes, op, res, nops, serial>>

InsertChecksNone(key) == <<>>
InsertChecks(key) == <<[key |-> key, versionstamp |-> NoVersion]>>

\* kv.atomic().check({key, versionstamp: null}).set(key, docToInsert).commit()
InsertOneCommit(p) ==
  /\ pc[p] = "io_commit"
  /\ LET _id == IdOf(op[p].doc, loc[p].call)
         key == getKvKey(_id)
         docToInsert == WithId(op[p].doc, serializeObjectId(_id))
         checks == InsertChecks(key)
     IN /\ AtomicCommit(checks, <<[key |-> key, value |-> docToInsert]>>, {})
        /\ IF AtomicOk(checks)
             THEN /\ loc' = [loc EXCEPT ![p].wrote = @ \cup {key}]
                  /\ Return(p, [insertedId |-> _id])
             ELSE /\ Throw(p, "Failed to insert document")
                  /\ UNCHANGED loc
  /\ UNCHANGED <<op, nops, serial>>


\* ------------------------------------------------------------------------
\* createIndex
\* ------------------------------------------------------------------------
\* The main documents under the collection prefix (entry.key.length === 2),
\* with _id turned back into an ObjectId
MainDocuments(list) ==
  LET main == SelectSeq(list, LAMBDA en : Len(en.key) = 2)
  IN [k \in DOMAIN main |-> WithId(main[k].value, deserializeObjectId(main[k].value._id))]

\* The uniqueness pre-check of createIndex: the first field that some
\* document repeats from an earlier (document, field), or "" when none
DuplicateInBackfill(docs, key) ==
  \E d1 \in DOMAIN docs, d2 \in DOMAIN docs, f \in DOMAIN key :
    d1 < d2 /\ serializeIndexValue(getNestedValue(docs[d1], key[f]))
                     = serializeIndexValue(getNestedValue(docs[d2], key[f]))

FirstDuplicateField(docs, key) ==
  LET hits == {<<d2, f>> \in (DOMAIN docs) \X (DOMAIN key) :
                 \E d1 \in 1..(d2 - 1) :
                   serializeIndexValue(getNestedValue(docs[d1], key[f]))
                     = serializeIndexValue(getNestedValue(docs[d2], key[f]))}
      first == CHOOSE h \in hits : \A o \in hits :
                 h[1] < o[1] \/ (h[1] = o[1] /\ h[2] <= o[2])
  IN key[first[2]]

IndexMetaKey(name) == <<"__indexes__", CollectionName, name>>

\* validation, then const existingIndex = await this.kv.get(indexKey)
CreateIndexGet(p) ==
  /\ pc[p] = "ci_get"
  /\ IF Len(op[p].spec.key) = 0
       THEN Throw(p, "Invalid index specification")
     ELSE IF Exists(KvGet(IndexMetaKey(IndexName(op[p].spec.key))))
       THEN Throw(p, "Index already exists")
       ELSE Goto(p, "ci_list") /\ UNCHANGED res
  /\ UNCHANGED <<kv, writes, op, loc, nops, serial>>

\* list the documents; when unique, look for duplicates among them
CreateIndexList(p) ==
  /\ pc[p] = "ci_list"
  /\ LET documents == MainDocuments(KvList(<<CollectionName>>))
     IN IF op[p].options.unique /\ DuplicateInBackfill(documents, op[p].spec.key)
          THEN /\ Throw(p, DupKeyField[FirstDuplicateField(documents, op[p].spec.key)])
               /\ UNCHANGED loc
          ELSE /\ loc' = [loc EXCEPT ![p] = [@ EXCEPT !.docs = documents, !.d = 1, !.j = 1]]
               /\ Goto(p, "ci_set")
               /\ UNCHANGED res
  /\ UNCHANGED <<kv, writes, op, nops, serial>>

\* await this.kv.set(indexKey, {spec, options}), then the backfill
CreateIndexSetMeta(p) ==
  /\ pc[p] = "ci_set"
  /\ LET indexKey == IndexMetaKey(IndexName(op[p].spec.key))
         info == [spec |-> op[p].spec, options |-> op[p].options]
     IN /\ AtomicCommit(<<>>, <<[key |-> indexKey, value |-> info]>>, {})
        /\ loc' = [loc EXCEPT ![p].wrote = @ \cup {indexKey}]
        /\ IF Len(loc[p].docs) = 0
             THEN Return(p, [name |-> IndexName(op[p].spec.key)])
             ELSE Goto(p, UiePc(info)) /\ UNCHANGED res
  /\ UNCHANGED <<op, nops, serial>>


\* ------------------------------------------------------------------------
\* Filters and updates
\* ------------------------------------------------------------------------
\* A filter maps a field to a condition; Lit(v) is the literal condition v.
Lit(v) == [lit |-> v]
IsLiteral(condition) == "lit" \in DOMAIN condition

\* matchesCondition(value, condition) for a literal: isEqual
\* typeof value === "number" || typeof value === "string"
isComparable(value) == value # Undefined

\* matchesCondition: a literal is compared with isEqual, an operator
\* object holds when every operator in it holds
matchesCondition(value, condition) ==
  IF IsLiteral(condition) THEN value = <<condition.lit>>
  ELSE \A o \in DOMAIN condition :
         CASE o = "$eq" -> value = <<condition[o]>>
           [] o = "$gt" -> isComparable(value) /\ value[1] > condition[o]
           [] o = "$gte" -> isComparable(value) /\ value[1] >= condition[o]
           [] o = "$lt" -> isComparable(value) /\ value[1] < condition[o]
           [] o = "$lte" -> isComparable(value) /\ value[1] <= condition[o]
           [] o = "$in" -> \E k \in DOMAIN condition[o] : value = <<condition[o][k]>>

\* matchesFilter: every top-level entry holds
matchesFilter(doc, filter) ==
  \A key \in DOMAIN filter : matchesCondition(getNestedValue(doc, key), filter[key])

\* getQueryValue: the literal, the $eq value, or the first $in value
getQueryValue(condition) ==
  IF IsLiteral(condition) THEN <<condition.lit>>
  ELSE IF "$eq" \in DOMAIN condition THEN <<condition["$eq"]>>
  ELSE IF Len(condition["$in"]) > 0 THEN <<condition["$in"][1]>>
  ELSE Undefined

RangeOps == {"$gt", "$gte", "$lt", "$lte"}

isRangeQuery(condition) ==
  ~IsLiteral(condition) /\ \E o \in DOMAIN condition : o \in RangeOps

\* String(n) for a number n >= 0: its decimal digits
RECURSIVE StringOf(_)
StringOf(n) == IF n < 10 THEN <<n>> ELSE StringOf(n \div 10) \o <<n % 10>>

\* a < b for two strings of digits, as JavaScript compares strings
RECURSIVE StrLessFrom(_, _, _)
StrLessFrom(a, b, i) ==
  IF i > Len(a) THEN i <= Len(b)
  ELSE IF i > Len(b) THEN FALSE
  ELSE IF a[i] = b[i] THEN StrLessFrom(a, b, i + 1)
  ELSE a[i] < b[i]

StrLess(a, b) == StrLessFrom(a, b, 1)

\* a truthy number
Truthy(condition, o) == o \in DOMAIN condition /\ condition[o] # 0

\* condition.$gt || condition.$gte, condition.$lt || condition.$lte
EitherBound(condition, first, second) ==
  IF Truthy(condition, first) THEN <<condition[first]>>
  ELSE IF second \in DOMAIN condition THEN <<condition[second]>>
  ELSE Undefined

\* findUsingIndexRange: the test on the value in an index entry's key,
\* made on the strings of the value and of the bound
RangeMatches(indexValue, condition) ==
  LET start == EitherBound(condition, "$gt", "$gte")
      end == EitherBound(condition, "$lt", "$lte")
      strIndexValue == StringOf(indexValue)
      startOk ==
        \/ start = Undefined
        \/ IF Truthy(condition, "$gt")
             THEN StrLess(StringOf(serializeIndexValue(start)), strIndexValue)
             ELSE ~StrLess(strIndexValue, StringOf(serializeIndexValue(start)))
      endOk ==
        \/ end = Undefined
        \/ IF Truthy(condition, "$lt")
             THEN StrLess(strIndexValue, StringOf(serializeIndexValue(end)))
             ELSE ~StrLess(StringOf(serializeIndexValue(end)), strIndexValue)
  IN startOk /\ endOk

UpdOps(update, name) == IF name \in DOMAIN update THEN update[name] ELSE <<>>

\* applyUpdateOperators: $set, then $unset, then $inc (missing counts as 0)
applyUpdateOperators(doc, update) ==
  LET set == UpdOps(update, "$set")
      r1 == [k \in (DOMAIN doc) \cup (DOMAIN set) |->
               IF k \in DOMAIN set THEN set[k] ELSE doc[k]]
      unset == UpdOps(update, "$unset")
      r2 == [k \in (DOMAIN r1) \ (DOMAIN unset) |-> r1[k]]
      inc == UpdOps(update, "$inc")
      r3 == [k \in (DOMAIN r2) \cup (DOMAIN inc) |->
               IF k \in DOMAIN inc
                 THEN (IF k \in DOMAIN r2 THEN r2[k] ELSE 0) + inc[k]
                 ELSE r2[k]]
  IN r3

\* sortDocuments by one field: direction 1 ascending, -1 descending; the
\* sort is stable
NoSort == <<>>

sortDocuments(results, sort) ==
  LET val(k) == getNestedValue(results[k].doc, sort.field)
      compare(j, k) ==
        IF val(j) = val(k) THEN 0
        ELSE IF val(j) = Undefined THEN sort.direction
        ELSE IF val(k) = Undefined THEN 0 - sort.direction
        ELSE IF val(j)[1] < val(k)[1] THEN 0 - sort.direction
        ELSE sort.direction
      before(j, k) == compare(j, k) < 0 \/ (compare(j, k) = 0 /\ j < k)
      pos(k) == 1 + Cardinality({j \in DOMAIN results : before(j, k)})
  IN [i \in DOMAIN results |-> results[CHOOSE k \in DOMAIN results : pos(k) = i]]

\* applyFindOptions with a sort and a limit (0: none), no skip or
\* projection
applyFindOptions(results, options) ==
  LET processed == IF options.sort # NoSort THEN sortDocuments(results, options.sort)
                   ELSE results
      limit == options.limit
  IN IF limit > 0
       THEN SubSeq(processed, 1, IF Len(processed) < limit THEN Len(processed) ELSE limit)
       ELSE processed

\* canUseIndexForQuery
canUseIndexForQuery(indexSpec, filter) ==
  LET indexFields == indexSpec.key
  IN IF Len(indexFields) = 1
       THEN /\ Has(filter, indexFields[1])
            /\ \/ IsLiteral(filter[indexFields[1]])
               \/ \E o \in DOMAIN filter[indexFields[1]] : o \in RangeOps \cup {"$eq", "$in"}
       ELSE /\ Has(filter, indexFields[1])
            /\ \A k \in 2..Len(indexFields) : Has(filter, indexFields[k])

\* The stored value as findOne and the scans hand it out: _id is turned
\* back into an ObjectId
\* { ...updatedDoc, _id: this.serializeObjectId(doc._id) }
docToStoreKeepsUpdated(doc, updatedDoc) == WithId(updatedDoc, serializeObjectId(updatedDoc._id))
docToStore(doc, updatedDoc) == WithId(updatedDoc, serializeObjectId(doc._id))

AsDocument(value) == WithId(value, deserializeObjectId(value._id))

UpdateResultNoUpsert(matched, modified, upsertedId, upserted, errors) ==
  [matchedCount |-> matched, modifiedCount |-> modified,
   upsertedId |-> 0, upsertedCount |-> 0, writeErrors |-> errors]
UpdateResult(matched, modified, upsertedId, upserted, errors) ==
  [matchedCount |-> matched, modifiedCount |-> modified,
   upsertedId |-> upsertedId, upsertedCount |-> upserted, writeErrors |-> errors]

NullId == 0

\* ------------------------------------------------------------------------
\* findOne and find, and what their callers do with the result
\* ------------------------------------------------------------------------
\* After findOne: fd is [doc, vs], the document and the versionstamp of the
\* entry it was read from; l is the caller's locals.
AfterFindOne(p, l, found, fd) ==
  CASE l.method = "findOne" ->
         /\ loc' = [loc EXCEPT ![p] = l]
         /\ Return(p, [found |-> found, doc |-> IF found THEN fd.doc ELSE NoDoc])
    [] l.method = "updateOne" ->
         IF ~found /\ op[p].upsert
           THEN /\ loc' = [loc EXCEPT ![p] = l]
                /\ Goto(p, "uo_upsert")
                /\ UNCHANGED res
         ELSE IF ~found
           THEN /\ loc' = [loc EXCEPT ![p] = l]
                /\ Return(p, UpdateResult(0, 0, NullId, 0, <<>>))
           ELSE /\ loc' = [loc EXCEPT ![p] =
                            [l EXCEPT !.found = TRUE, !.doc = fd.doc, !.docVs = fd.vs]]
                /\ Goto(p, "uo_get")
                /\ UNCHANGED res
    [] l.method = "deleteOne" ->
         IF ~found
           THEN /\ loc' = [loc EXCEPT ![p] = l]
                /\ Return(p, [deletedCount |-> 0])
           ELSE /\ loc' = [loc EXCEPT ![p] =
                            [l EXCEPT !.found = TRUE, !.doc = fd.doc, !.docVs = fd.vs]]
                /\ Goto(p, "do_get")
                /\ UNCHANGED res

Docs(found) == [k \in DOMAIN found |-> found[k].doc]
Versions(found) == [k \in DOMAIN found |-> found[k].vs]

\* After find: found is the sequence of [doc, vs] that find returns.
AfterFind(p, l, found) ==
  CASE l.method = "find" ->
         /\ loc' = [loc EXCEPT ![p] = l]
         /\ Return(p, [docs |-> Docs(found)])
    [] l.method = "countDocuments" ->
         /\ loc' = [loc EXCEPT ![p] = l]
         /\ Return(p, [count |-> Len(found)])
    [] l.method \in {"findOne", "updateOne", "deleteOne"} ->
         AfterFindOne(p, l, Len(found) > 0, IF Len(found) > 0 THEN found[1] ELSE <<>>)
    [] l.method = "updateMany" ->
         IF Len(found) = 0 /\ op[p].upsert
           THEN /\ loc' = [loc EXCEPT ![p] = [l EXCEPT !.method = "updateOne"]]
                /\ Goto(p, FindOnePc(op[p].filter))
                /\ UNCHANGED res
         ELSE IF Len(found) = 0
           THEN /\ loc' = [loc EXCEPT ![p] = l]
                /\ Return(p, UpdateResult(0, 0, NullId, 0, <<>>))
           ELSE /\ loc' = [loc EXCEPT ![p] =
                            [l EXCEPT !.docs = Docs(found), !.docsVs = Versions(found), !.d = 1]]
                /\ Goto(p, "um_get")
                /\ UNCHANGED res
    [] l.method = "deleteMany" ->
         IF Len(found) = 0
           THEN /\ loc' = [loc EXCEPT ![p] = l]
                /\ Return(p, [deletedCount |-> 0])
           ELSE /\ loc' = [loc EXCEPT ![p] =
                            [l EXCEPT !.docs = Docs(found), !.docsVs = Versions(found), !.d = 1]]
                /\ Goto(p, "dm_get")
                /\ UNCHANGED res

\* findOne passes {limit: 1} to find
FindLimit(l) == IF l.method \in {"findOne", "updateOne", "deleteOne"} THEN 1 ELSE 0

\* the options find is called with
FindOptions(p, l) ==
  [sort |-> IF "sort" \in DOMAIN op[p] THEN op[p].sort ELSE NoSort, limit |-> FindLimit(l)]

\* findOne with an ObjectId _id in the filter: one kv.get, no other
\* entry of the filter is looked at
FindOneGet(p) ==
  /\ pc[p] = "fo_get"
  /\ LET result == KvGet(getKvKey(op[p].filter._id.lit))
     IN IF ~Exists(result)
          THEN AfterFindOne(p, loc[p], FALSE, <<>>)
          ELSE AfterFindOne(p, loc[p], TRUE,
                            [doc |-> AsDocument(result.value), vs |-> result.versionstamp])
  /\ UNCHANGED <<kv, writes, op, nops, serial>>

\* findUsableIndex: the first listed index that canUseIndexForQuery
FindListIndexes(p) ==
  /\ pc[p] = "f_idx"
  /\ LET idx == IndexInfos(KvList(<<"__indexes__", CollectionName>>))
         usable == {k \in DOMAIN idx : canUseIndexForQuery(idx[k].spec, op[p].filter)}
     IN IF usable # {}
          THEN LET first == CHOOSE k \in usable : \A o \in usable : k <= o
                   key == idx[first].spec.key
               IN /\ loc' = [loc EXCEPT ![p] = [@ EXCEPT !.used = idx[first]]]
                  /\ Goto(p, IF Len(key) = 1 /\ isRangeQuery(op[p].filter[key[1]])
                               THEN "fr_list" ELSE "fi_list")
          ELSE /\ Goto(p, "fs_list")
               /\ UNCHANGED loc
  /\ UNCHANGED <<kv, writes, op, res, nops, serial>>

\* findUsingIndex: list the entries under (field, serialized value), for
\* a compound index under the first field's value
FindIndexList(p) ==
  /\ pc[p] = "fi_list"
  /\ LET field == loc[p].used.spec.key[1]
         sval == serializeIndexValue(getQueryValue(op[p].filter[field]))
         entries == KvList(IndexPrefix(field, sval))
         l == [loc[p] EXCEPT !.entries = entries, !.e = 1, !.results = <<>>]
     IN IF Len(entries) = 0
          THEN AfterFind(p, l, applyFindOptions(<<>>, FindOptions(p, l)))
          ELSE /\ loc' = [loc EXCEPT ![p] = l]
               /\ Goto(p, "fi_get")
               /\ UNCHANGED res
  /\ UNCHANGED <<kv, writes, op, nops, serial>>

\* findUsingIndexRange: list every entry of the field's index and keep
\* those whose value passes the test on strings; the documents are then
\* re-fetched and verified as in findUsingIndex
FindIndexRangeList(p) ==
  /\ pc[p] = "fr_list"
  /\ LET field == loc[p].used.spec.key[1]
         listed == KvList(<<CollectionName, "__idx__", field>>)
         entries == SelectSeq(listed, LAMBDA en :
                      RangeMatches(KeyPartNumber(en.key[4]), op[p].filter[field]))
         l == [loc[p] EXCEPT !.entries = entries, !.e = 1, !.results = <<>>]
     IN IF Len(entries) = 0
          THEN AfterFind(p, l, applyFindOptions(<<>>, FindOptions(p, l)))
          ELSE /\ loc' = [loc EXCEPT ![p] = l]
               /\ Goto(p, "fi_get")
               /\ UNCHANGED res
  /\ UNCHANGED <<kv, writes, op, nops, serial>>

\* findUsingIndex: re-fetch the document of one entry, verify, dedupe
FindIndexGet(p) ==
  /\ pc[p] = "fi_get"
  /\ LET docId == loc[p].entries[loc[p].e].value._id
         result == KvGet(getKvKey(deserializeObjectId(docId)))
         seen == \E k \in DOMAIN loc[p].results :
                   loc[p].results[k].doc._id = deserializeObjectId(docId)
         results ==
           IF Exists(result) /\ matchesFilter(AsDocument(result.value), op[p].filter) /\ ~seen
             THEN Append(loc[p].results,
                         [doc |-> AsDocument(result.value), vs |-> result.versionstamp])
             ELSE loc[p].results
         l == [loc[p] EXCEPT !.results = results, !.e = @ + 1]
     IN IF loc[p].e < Len(loc[p].entries)
          THEN /\ loc' = [loc EXCEPT ![p] = l]
               /\ UNCHANGED <<pc, res>>
          ELSE AfterFind(p, l, applyFindOptions(results, FindOptions(p, l)))
  /\ UNCHANGED <<kv, writes, op, nops, serial>>

\* findWithoutIndex: scan the collection prefix, skip the index entries
FindScan(p) ==
  /\ pc[p] = "fs_list"
  /\ LET list == SelectSeq(KvList(<<CollectionName>>), LAMBDA en : Len(en.key) = 2)
         all == [k \in DOMAIN list |->
                   [doc |-> AsDocument(list[k].value), vs |-> list[k].versionstamp]]
         results == SelectSeq(all, LAMBDA r : matchesFilter(r.doc, op[p].filter))
     IN AfterFind(p, loc[p], applyFindOptions(results, FindOptions(p, loc[p])))
  /\ UNCHANGED <<kv, writes, op, nops, serial>>


\* estimatedDocumentCount: the number of entries under [collectionName]
EstimatedDocumentCount(p) ==
  /\ pc[p] = "edc_list"
  /\ Return(p, [count |-> Len(KvList(<<CollectionName>>))])
  /\ UNCHANGED <<kv, writes, op, loc, nops, serial>>

\* ------------------------------------------------------------------------
\* updateOne
\* ------------------------------------------------------------------------
\* the upsert branch: insert {_id} with the update applied
UpdateOneUpsert(p) ==
  /\ pc[p] = "uo_upsert"
  /\ LET _id == IF HasObjectId(op[p].filter) THEN op[p].filter._id.lit
                ELSE generateId(loc[p].call)
         newDoc == applyUpdateOperators([_id |-> _id], op[p].update)
         key == getKvKey(_id)
         checks == InsertChecks(key)
     IN /\ AtomicCommit(checks,
                        <<[key |-> key, value |-> WithId(newDoc, serializeObjectId(_id))]>>, {})
        /\ IF AtomicOk(checks)
             THEN /\ loc' = [loc EXCEPT ![p].wrote = @ \cup {key}]
                  /\ Return(p, UpdateResult(0, 1, _id, 1, <<>>))
             ELSE /\ Throw(p, "Failed to upsert document")
                  /\ UNCHANGED loc
  /\ UNCHANGED <<op, nops, serial>>

\* const currentEntry = await this.kv.get(key)
UpdateOneGet(p) ==
  /\ pc[p] = "uo_get"
  /\ loc' = [loc EXCEPT ![p].vs = KvGet(getKvKey(loc[p].doc._id)).versionstamp]
  /\ Goto(p, "uo_commit")
  /\ UNCHANGED <<kv, writes, op, res, nops, serial>>

\* kv.atomic().check({key, versionstamp}).set(key, updatedDoc).commit()
UpdateOneCommit(p) ==
  /\ pc[p] = "uo_commit"
  /\ LET updatedDoc == applyUpdateOperators(loc[p].doc, op[p].update)
         key == getKvKey(loc[p].doc._id)
         checks == <<[key |-> key, versionstamp |-> loc[p].vs]>>
     IN /\ AtomicCommit(checks,
                        <<[key |-> key,
                           value |-> docToStore(loc[p].doc, updatedDoc)]>>, {})
        /\ IF AtomicOk(checks)
             THEN /\ loc' = [loc EXCEPT ![p].wrote = @ \cup {key}]
                  /\ Return(p, UpdateResult(1, 1, NullId, 0, <<>>))
             ELSE /\ Throw(p, "Failed to update document")
                  /\ UNCHANGED loc
  /\ UNCHANGED <<op, nops, serial>>


\* ------------------------------------------------------------------------
\* deleteOne
\* ------------------------------------------------------------------------
DeleteOneGet(p) ==
  /\ pc[p] = "do_get"
  /\ loc' = [loc EXCEPT ![p].vs = KvGet(getKvKey(loc[p].doc._id)).versionstamp]
  /\ Goto(p, "do_commit")
  /\ UNCHANGED <<kv, writes, op, res, nops, serial>>

\* kv.atomic().check({key, versionstamp}).delete(key).commit()
DeleteOneCommit(p) ==
  /\ pc[p] = "do_commit"
  /\ LET key == getKvKey(loc[p].doc._id)
         checks == <<[key |-> key, versionstamp |-> loc[p].vs]>>
     IN /\ AtomicCommit(checks, <<>>, {key})
        /\ IF AtomicOk(checks)
             THEN /\ loc' = [loc EXCEPT ![p].wrote = @ \cup {key}]
                  /\ Return(p, [deletedCount |-> 1])
             ELSE /\ Throw(p, "Failed to delete document - concurrent modification detected")
                  /\ UNCHANGED loc
  /\ UNCHANGED <<op, nops, serial>>


\* ------------------------------------------------------------------------
\* insertMany
\* ------------------------------------------------------------------------
InsertManyResult(l) ==
  [insertedCount |-> Len(l.ids), insertedIds |-> l.ids,
   hasWriteErrors |-> Len(l.errors) > 0, writeErrors |-> l.errors]

\* insertDoc k has returned an id or null: in ordered mode the next
\* document starts, and after the last one insertMany returns
InsertDocDone(p, l, k) ==
  LET done == [l EXCEPT !.tasks[k].at = "done"]
  IN IF op[p].ordered /\ k < Len(l.tasks)
       THEN /\ loc' = [loc EXCEPT ![p] = [done EXCEPT !.tasks[k + 1].at = "get"]]
            /\ UNCHANGED <<pc, res>>
     ELSE IF \A o \in DOMAIN done.tasks : done.tasks[o].at = "done"
       THEN /\ loc' = [loc EXCEPT ![p] = done]
            /\ Return(p, InsertManyResult(done))
       ELSE /\ loc' = [loc EXCEPT ![p] = done]
            /\ UNCHANGED <<pc, res>>

\* insertDoc k has failed: the error is recorded with the document's
\* position; in ordered mode it is thrown out of insertMany
InsertDocFail(p, k, msg) ==
  LET l == [loc[p] EXCEPT !.errors = Append(@, [index |-> k - 1, error |-> msg])]
  IN IF op[p].ordered
       THEN /\ loc' = [loc EXCEPT ![p] = l]
            /\ Throw(p, msg)
       ELSE InsertDocDone(p, l, k)

\* The (index, field) pairs that checkIndexViolations scans
UniquePositions(idx) ==
  UNION {{<<i, j>> : j \in DOMAIN idx[i].spec.key} :
           i \in {u \in DOMAIN idx : idx[u].options.unique}}

PosLess(a, b) == a[1] < b[1] \/ (a[1] = b[1] /\ a[2] < b[2])

FirstPos(S) == CHOOSE a \in S : \A b \in S \ {a} : PosLess(a, b)

\* !doc || typeof doc !== "object": null is the invalid document
IsInvalid(doc) == doc = NoDoc

InvalidErrors(docs) ==
  LET bad == SelectSeq([k \in DOMAIN docs |-> k], LAMBDA k : IsInvalid(docs[k]))
  IN [e \in DOMAIN bad |-> [index |-> bad[e] - 1, error |-> "Invalid document"]]

\* "Validate documents first", then the start of the insertDoc calls:
\* insertDoc returns null for an invalid document without a KV call
InsertManyValidate(p) ==
  /\ pc[p] = "im_validate"
  /\ LET docs == op[p].docs
         errors == InvalidErrors(docs)
         tasks == [k \in DOMAIN docs |->
                     IF IsInvalid(docs[k]) THEN Task("done") ELSE loc[p].tasks[k]]
         l == [loc[p] EXCEPT !.errors = errors, !.tasks = tasks]
     IN IF op[p].ordered /\ Len(errors) > 0
          THEN /\ Throw(p, "Invalid document")
               /\ UNCHANGED loc
        ELSE IF \A k \in DOMAIN tasks : tasks[k].at = "done"
          THEN /\ loc' = [loc EXCEPT ![p] = l]
               /\ Return(p, InsertManyResult(l))
          ELSE /\ loc' = [loc EXCEPT ![p] = l]
               /\ Goto(p, "im_run")
               /\ UNCHANGED res
  /\ UNCHANGED <<kv, writes, op, nops, serial>>

InsertManyGet(p, k) ==
  /\ pc[p] = "im_run"
  /\ k \in DOMAIN loc[p].tasks
  /\ loc[p].tasks[k].at = "get"
  /\ LET key == getKvKey(IdOf(op[p].docs[k], loc[p].call))
     IN IF Exists(KvGet(key))
          THEN InsertDocFail(p, k, "Duplicate key error")
          ELSE /\ loc' = [loc EXCEPT ![p].tasks[k].at = "list"]
               /\ UNCHANGED <<pc, res>>
  /\ UNCHANGED <<kv, writes, op, nops, serial>>

\* checkIndexViolations: list the indexes
InsertManyListIndexes(p, k) ==
  /\ pc[p] = "im_run"
  /\ k \in DOMAIN loc[p].tasks
  /\ loc[p].tasks[k].at = "list"
  /\ LET idx == IndexInfos(KvList(<<"__indexes__", CollectionName>>))
         todo == UniquePositions(idx)
     IN loc' = [loc EXCEPT ![p].tasks[k] =
                  IF todo = {} THEN [@ EXCEPT !.at = "commit", !.idx = idx]
                  ELSE [@ EXCEPT !.at = "check", !.idx = idx,
                                 !.i = FirstPos(todo)[1], !.j = FirstPos(todo)[2]]]
  /\ UNCHANGED <<kv, writes, pc, op, res, nops, serial>>

\* checkIndexViolations: list one unique prefix
InsertManyCheck(p, k) ==
  /\ pc[p] = "im_run"
  /\ k \in DOMAIN loc[p].tasks
  /\ loc[p].tasks[k].at = "check"
  /\ LET t == loc[p].tasks[k]
         _id == IdOf(op[p].docs[k], loc[p].call)
         docToInsert == WithId(op[p].docs[k], serializeObjectId(_id))
         field == t.idx[t.i].spec.key[t.j]
         sval == serializeIndexValue(getNestedValue(docToInsert, field))
         rest == {a \in UniquePositions(t.idx) : PosLess(<<t.i, t.j>>, a)}
     IN IF OtherIdUnder(KvList(IndexPrefix(field, sval)), docToInsert._id)
          THEN InsertDocFail(p, k, DupKeyField[field])
          ELSE /\ loc' = [loc EXCEPT ![p].tasks[k] =
                            IF rest = {} THEN [@ EXCEPT !.at = "commit"]
                            ELSE [@ EXCEPT !.i = FirstPos(rest)[1], !.j = FirstPos(rest)[2]]]
               /\ UNCHANGED <<pc, res>>
  /\ UNCHANGED <<kv, writes, op, nops, serial>>

InsertManyCommit(p, k) ==
  /\ pc[p] = "im_run"
  /\ k \in DOMAIN loc[p].tasks
  /\ loc[p].tasks[k].at = "commit"
  /\ LET _id == IdOf(op[p].docs[k], loc[p].call)
         key == getKvKey(_id)
         docToInsert == WithId(op[p].docs[k], serializeObjectId(_id))
         checks == InsertChecks(key)
     IN /\ AtomicCommit(checks, <<[key |-> key, value |-> docToInsert]>>, {})
        /\ IF AtomicOk(checks)
             THEN InsertDocDone(p, [loc[p] EXCEPT !.ids = Append(@, _id),
                                                  !.wrote = @ \cup {key}], k)
             ELSE InsertDocFail(p, k, "Failed to insert document")
  /\ UNCHANGED <<op, nops, serial>>

\* ------------------------------------------------------------------------
\* updateMany
\* ------------------------------------------------------------------------
UpdateManyGet(p) ==
  /\ pc[p] = "um_get"
  /\ loc' = [loc EXCEPT ![p].vs = KvGet(getKvKey(loc[p].docs[loc[p].d]._id)).versionstamp]
  /\ Goto(p, "um_commit")
  /\ UNCHANGED <<kv, writes, op, res, nops, serial>>

\* one atomic batch per document; a failed commit is not counted
UpdateManyCommit(p) ==
  /\ pc[p] = "um_commit"
  /\ LET doc == loc[p].docs[loc[p].d]
         updatedDoc == applyUpdateOperators(doc, op[p].update)
         key == getKvKey(doc._id)
         stored == docToStore(doc, updatedDoc)
         checks == <<[key |-> key, versionstamp |-> loc[p].vs]>>
         l == IF AtomicOk(checks)
                THEN [loc[p] EXCEPT !.count = @ + 1, !.wrote = @ \cup {key}]
                ELSE loc[p]
     IN /\ AtomicCommit(checks, <<[key |-> key, value |-> stored]>>, {})
        /\ IF loc[p].d < Len(loc[p].docs)
             THEN /\ loc' = [loc EXCEPT ![p] = [l EXCEPT !.d = @ + 1]]
                  /\ Goto(p, "um_get")
                  /\ UNCHANGED res
             ELSE /\ loc' = [loc EXCEPT ![p] = l]
                  /\ Return(p, UpdateResult(Len(l.docs), l.count, NullId, 0, l.errors))
  /\ UNCHANGED <<op, nops, serial>>

\* ------------------------------------------------------------------------
\* deleteMany
\* ------------------------------------------------------------------------
\* read the versionstamp of one matched document into the batch
DeleteManyGet(p) ==
  /\ pc[p] = "dm_get"
  /\ LET key == getKvKey(loc[p].docs[loc[p].d]._id)
         currentEntry == KvGet(key)
         l == [loc[p] EXCEPT
                 !.checks = Append(@, [key |-> key, versionstamp |-> currentEntry.versionstamp]),
                 !.dels = @ \cup {key}]
     IN IF loc[p].d < Len(loc[p].docs)
          THEN /\ loc' = [loc EXCEPT ![p] = [l EXCEPT !.d = @ + 1]]
               /\ UNCHANGED pc
          ELSE /\ loc' = [loc EXCEPT ![p] = l]
               /\ Goto(p, "dm_commit")
  /\ UNCHANGED <<kv, writes, op, res, nops, serial>>

\* one atomic batch for all matched documents
DeleteManyCommit(p) ==
  /\ pc[p] = "dm_commit"
  /\ AtomicCommit(loc[p].checks, <<>>, loc[p].dels)
  /\ IF AtomicOk(loc[p].checks)
       THEN /\ loc' = [loc EXCEPT ![p].wrote = @ \cup loc[p].dels]
            /\ Return(p, [deletedCount |-> Len(loc[p].docs)])
       ELSE /\ Throw(p, "Failed to delete documents - concurrent modification detected")
            /\ UNCHANGED loc
  /\ UNCHANGED <<op, nops, serial>>

\* ------------------------------------------------------------------------
\* dropIndex
\* ------------------------------------------------------------------------
\* await this.kv.delete(indexKey)
DropIndex(p) ==
  /\ pc[p] = "di_delete"
  /\ LET indexKey == IndexMetaKey(op[p].indexName)
     IN /\ AtomicCommit(<<>>, <<>>, {indexKey})
        /\ loc' = [loc EXCEPT ![p].wrote = @ \cup {indexKey}]
        /\ Return(p, <<>>)
  /\ UNCHANGED <<op, nops, serial>>

\* ------------------------------------------------------------------------
\* Specification
\* ------------------------------------------------------------------------
Init ==
  /\ kv = <<>>
  /\ writes = <<>>
  /\ pc = [p \in Procs |-> "idle"]
  /\ op = [p \in Procs |-> NoOp]
  /\ loc = [p \in Procs |-> LocInit(0)]
  /\ res = [p \in Procs |-> NoRes]
  /\ nops = 0
  /\ serial = TRUE

DocX(id) == [_id |-> id, f |-> "x", n |-> 0]
DocY(id) == [_id |-> id, f |-> "y", n |-> 0]

SparseF == [name |-> "createIndex", spec |-> [key |-> <<"f">>],
            options |-> [unique |-> FALSE, sparse |-> TRUE]]

UniqueF == [name |-> "createIndex", spec |-> [key |-> <<"f">>],
            options |-> [unique |-> TRUE, sparse |-> FALSE]]

IncN == "$inc" :> [n |-> 1]
SetFY == "$set" :> [f |-> "y"]
IncNSetOnInsert == ("$inc" :> [n |-> 1]) @@ ("$setOnInsert" :> [f |-> "y"])

\* The calls the callers make
Menu ==
  << [name |-> "insertOne", doc |-> DocX(1)],
     [name |-> "insertOne", doc |-> DocX(2)],
     [name |-> "insertOne", doc |-> DocY(1)],
     [name |-> "insertMany", docs |-> <<DocX(1), DocX(3)>>, ordered |-> TRUE],
     [name |-> "updateOne", filter |-> [_id |-> Lit(1)], update |-> IncN, upsert |-> TRUE],
     [name |-> "updateOne", filter |-> [f |-> Lit("x")], update |-> SetFY, upsert |-> FALSE],
     [name |-> "updateMany", filter |-> [f |-> Lit("x")], update |-> IncN, upsert |-> FALSE],
     [name |-> "deleteOne", filter |-> [_id |-> Lit(1)]],
     [name |-> "deleteMany", filter |-> [f |-> Lit("x")]],
     [name |-> "find", filter |-> [f |-> Lit("x")]],
     [name |-> "findOne", filter |-> [_id |-> Lit(1), n |-> Lit(1)]],
     [name |-> "dropIndex", indexName |-> "f_1"],
     UniqueF >>

\* Calls with invalid documents, unordered batches and a sparse index
MenuBatch ==
  << [name |-> "insertOne", doc |-> DocX(1)],
     [name |-> "insertMany", docs |-> <<DocX(3), NoDoc>>, ordered |-> TRUE],
     [name |-> "insertMany", docs |-> <<DocX(1), DocX(3)>>, ordered |-> FALSE],
     [name |-> "insertMany", docs |-> <<NoDoc, DocX(3)>>, ordered |-> FALSE],
     [name |-> "updateOne", filter |-> [_id |-> Lit(1)], update |-> IncNSetOnInsert,
      upsert |-> TRUE],
     [name |-> "updateMany", filter |-> [f |-> Lit("x")], update |-> IncN, upsert |-> FALSE],
     [name |-> "deleteOne", filter |-> [_id |-> Lit(1)]],
     [name |-> "deleteMany", filter |-> [f |-> Lit("x")]],
     [name |-> "find", filter |-> [f |-> Lit("x")]],
     [name |-> "dropIndex", indexName |-> "f_1"],
     SparseF,
     UniqueF >>

NextOf(calls) ==
  \E p \in Procs :
    \/ Start(p, calls)
    \/ InsertOneGet(p)
    \/ InsertOneListIndexes(p)
    \/ InsertOneCommit(p)
    \/ UpdateIndexEntryCheck(p)
    \/ UpdateIndexEntrySet(p)
    \/ CreateIndexGet(p)
    \/ CreateIndexList(p)
    \/ CreateIndexSetMeta(p)
    \/ FindOneGet(p)
    \/ FindListIndexes(p)
    \/ FindIndexList(p)
    \/ FindIndexGet(p)
    \/ FindScan(p)
    \/ UpdateOneUpsert(p)
    \/ UpdateOneGet(p)
    \/ UpdateOneCommit(p)
    \/ DeleteOneGet(p)
    \/ DeleteOneCommit(p)
    \/ InsertManyValidate(p)
    \/ \E k \in 1..MaxBatch :
         \/ InsertManyGet(p, k)
         \/ InsertManyListIndexes(p, k)
         \/ InsertManyCheck(p, k)
         \/ InsertManyCommit(p, k)
    \/ UpdateManyGet(p)
    \/ UpdateManyCommit(p)
    \/ DeleteManyGet(p)
    \/ DeleteManyCommit(p)
    \/ DropIndex(p)

Next == NextOf(Menu)

Spec == Init /\ [][Next]_vars

NextBatch == NextOf(MenuBatch)

SpecBatch == Init /\ [][NextBatch]_vars

\* ------------------------------------------------------------------------
\* Views of the store used by the properties
\* ------------------------------------------------------------------------
DocKeys(store) == {k \in DOMAIN store : Len(k) = 2}
IndexEntryKeys(store) == {k \in DOMAIN store : Len(k) = 5}
IndexMetaKeys(store) == {k \in DOMAIN store : Len(k) = 3}

AllIdle == \A p \in Procs : pc[p] = "idle"

\* The fields that a unique index of the store covers
UniqueFields(store) ==
  UNION {{store[m].value.spec.key[j] : j \in DOMAIN store[m].value.spec.key} :
           m \in {u \in IndexMetaKeys(store) : store[u].value.options.unique}}

\* The fields that any index of the store covers, with the sparse flag
IndexedFields(store) ==
  UNION {{[field |-> store[m].value.spec.key[j], sparse |-> store[m].value.options.sparse] :
            j \in DOMAIN store[m].value.spec.key} : m \in IndexMetaKeys(store)}

SerializedField(value, field) == serializeIndexValue(getNestedValue(value, field))

\* No two calls have overlapped so far, and p's call is the latest and
\* has returned: the store is as that call left it.
LatestAlone(p) == serial /\ AllIdle /\ loc[p].call = nops

\* Process p takes the step that leaves label at
Leaves(p, at) == pc[p] = at /\ pc'[p] # at

\* ------------------------------------------------------------------------
\* C1: updateOne and updateMany commit a new value only if the primary
\* entry still carries the version at which the document was read.
\* ------------------------------------------------------------------------
C1_CommitOnlyAtReadVersion ==
  [][\A p \in Procs :
       /\ (Leaves(p, "uo_commit") /\ kv' # kv)
            => KvGet(getKvKey(loc[p].doc._id)).versionstamp = loc[p].docVs
       /\ (Leaves(p, "um_commit") /\ kv' # kv)
            => KvGet(getKvKey(loc[p].docs[loc[p].d]._id)).versionstamp
                 = loc[p].docsVs[loc[p].d]]_vars

\* ------------------------------------------------------------------------
\* C2: in every reachable state each unique index holds entries of at most
\* one document id under any (field, serialized value) prefix.
\* ------------------------------------------------------------------------
C2_UniquePrefixOneId ==
  \A k1 \in IndexEntryKeys(kv), k2 \in IndexEntryKeys(kv) :
    (k1[3] \in UniqueFields(kv) /\ k1[3] = k2[3] /\ k1[4] = k2[4]) => k1[5] = k2[5]

\* ------------------------------------------------------------------------
\* C3: findOne, updateOne and deleteOne return or affect a document only
\* if it satisfies every top-level entry of the filter.
\* ------------------------------------------------------------------------
C3_FoundSatisfiesFilter ==
  \A p \in Procs :
    /\ (op[p].name \in {"updateOne", "deleteOne"} /\ loc[p].found)
         => matchesFilter(loc[p].doc, op[p].filter)
    /\ (op[p].name = "findOne" /\ res[p].status = "ok" /\ res[p].ret.found)
         => matchesFilter(res[p].ret.doc, op[p].filter)

\* ------------------------------------------------------------------------
\* C4: in every reachable state every index entry references an existing
\* document whose field currently serializes to the entry's value.
\* ------------------------------------------------------------------------
C4_NoOrphanNoStaleEntry ==
  \A k \in IndexEntryKeys(kv) :
    /\ <<CollectionName, k[5]>> \in DOMAIN kv
    /\ SerializedField(kv[<<CollectionName, k[5]>>].value, k[3]) = k[4]

\* ------------------------------------------------------------------------
\* C5: in every quiescent state every document has, for every field of
\* every declared index, an entry under its serialized value, unless the
\* document has no value there and the index is sparse.
\* ------------------------------------------------------------------------
C5_EveryDocumentIndexed ==
  (AllIdle /\ serial) =>
    \A d \in DocKeys(kv), x \in IndexedFields(kv) :
      \/ IndexKey(x.field, SerializedField(kv[d].value, x.field), d[2]) \in DOMAIN kv
      \/ (~Has(kv[d].value, x.field) /\ x.sparse)

ScanMatches(store, filter) ==
  {AsDocument(store[d].value) : d \in {k \in DocKeys(store) :
                                        matchesFilter(AsDocument(store[k].value), filter)}}

\* ------------------------------------------------------------------------
\* C6: a find served by an index returns the same set of documents as a
\* full collection scan with the same filter of the same store (stated
\* for a find that ran alone and is the latest call).
\* ------------------------------------------------------------------------
C6_IndexFindEqualsScan ==
  \A p \in Procs :
    (/\ op[p].name = "find"
     /\ res[p].status = "ok"
     /\ loc[p].used # NoIndexInfo
     /\ LatestAlone(p))
      => {res[p].ret.docs[k] : k \in DOMAIN res[p].ret.docs} = ScanMatches(kv, op[p].filter)

\* Process p is in insertOne, in insertMany or at the commit of an upsert
InsertStep(p) ==
  \/ pc[p] \in {"io_get", "io_list", "uie_check", "uie_set", "io_commit"} /\ op[p].name = "insertOne"
  \/ pc[p] \in {"im_validate", "im_run"}
  \/ pc[p] = "uo_upsert"

InsertManyCommits(p, k) ==
  /\ pc[p] = "im_run"
  /\ k \in DOMAIN loc[p].tasks
  /\ loc[p].tasks[k].at = "commit"
  /\ (pc'[p] = "idle" \/ loc'[p].tasks[k].at = "done")

\* ------------------------------------------------------------------------
\* C7: an insert never overwrites: the commit of insertOne, of an
\* insertMany document or of an upsert for an _id that is committed at
\* that moment fails and leaves the store as it is.
\* ------------------------------------------------------------------------
C7_InsertNeverOverwrites ==
  [][\A p \in Procs :
       /\ (InsertStep(p) /\ (pc'[p] # pc[p] \/ loc'[p] # loc[p]))
            => \A d \in DocKeys(kv) : d \in DOMAIN kv' /\ kv'[d] = kv[d]
       /\ (Leaves(p, "io_get") /\ getKvKey(IdOf(op[p].doc, loc[p].call)) \in DOMAIN kv)
            => (kv' = kv /\ res'[p].status = "error")
       /\ (Leaves(p, "io_commit") /\ getKvKey(IdOf(op[p].doc, loc[p].call)) \in DOMAIN kv)
            => (kv' = kv /\ res'[p].status = "error")
       /\ (Leaves(p, "uo_upsert") /\ HasObjectId(op[p].filter)
             /\ getKvKey(op[p].filter._id.lit) \in DOMAIN kv)
            => (kv' = kv /\ res'[p].status = "error")
       /\ \A k \in 1..MaxBatch :
            (InsertManyCommits(p, k)
               /\ getKvKey(IdOf(op[p].docs[k], loc[p].call)) \in DOMAIN kv)
              => (/\ kv' = kv
                  /\ \E e \in DOMAIN loc'[p].errors : loc'[p].errors[e].index = k - 1)]_vars

\* an insertOne or an upsert whose commit met a document committed after
\* its existence check
C7_Witness ==
  \E p \in Procs :
    /\ res[p].error \in {"Failed to insert document", "Failed to upsert document"}
    /\ op[p].name \in {"insertOne", "updateOne"}

DuplicateOfOther(p) ==
  LET _id == serializeObjectId(IdOf(op[p].doc, loc[p].call))
  IN \E d \in DocKeys(kv) :
       /\ "f" \in UniqueFields(kv)
       /\ d[2] # _id
       /\ SerializedField(kv[d].value, "f") = SerializedField(op[p].doc, "f")

\* ------------------------------------------------------------------------
\* C8: with a unique index on f, insertOne of a document whose f equals
\* that of an existing document with another _id fails with the
\* duplicate-key error naming f (stated for calls that do not overlap).
\* ------------------------------------------------------------------------
C8_DuplicateValueRejected ==
  \A p \in Procs :
    (op[p].name = "insertOne" /\ LatestAlone(p) /\ DuplicateOfOther(p))
      => (res[p].status = "error" /\ res[p].error = DupKeyField["f"])

\* ------------------------------------------------------------------------
\* C9: after any sequence of writes no two documents have the same value
\* for a uniquely indexed field.
\* ------------------------------------------------------------------------
C9_NoDuplicateUnderUniqueIndex ==
  (AllIdle /\ serial) =>
    \A field \in UniqueFields(kv) :
      \A d1 \in DocKeys(kv), d2 \in DocKeys(kv) :
        SerializedField(kv[d1].value, field) = SerializedField(kv[d2].value, field)
          => d1 = d2

\* ------------------------------------------------------------------------
\* C10: a failed insertOne leaves the KV store as it was before the call:
\* the call has written no key.
\* ------------------------------------------------------------------------
C10_FailedInsertWritesNothing ==
  \A p \in Procs :
    (op[p].name = "insertOne" /\ res[p].status = "error") => loc[p].wrote = {}

\* The primary key that the update commit of p writes
UpdateKey(p) ==
  IF pc[p] = "uo_commit" THEN getKvKey(loc[p].doc._id)
  ELSE getKvKey(loc[p].docs[loc[p].d]._id)

\* Process p takes an update commit step that changes the store
UpdateCommits(p) ==
  (Leaves(p, "uo_commit") \/ Leaves(p, "um_commit")) /\ kv' # kv

\* ------------------------------------------------------------------------
\* C11: when an update commit changes the value of an indexed field of a
\* document from v to w, the store after the commit holds the document's
\* index entry under w and none under v (stated for calls that do not
\* overlap).
\* ------------------------------------------------------------------------
C11_UpdateMovesIndexEntry ==
  [][\A p \in Procs :
       (serial /\ UpdateCommits(p) /\ UpdateKey(p) \in DOMAIN kv) =>
         \A x \in IndexedFields(kv) :
           LET key == UpdateKey(p)
               v == SerializedField(kv[key].value, x.field)
               w == SerializedField(kv'[key].value, x.field)
           IN v # w => /\ IndexKey(x.field, w, key[2]) \in DOMAIN kv'
                       /\ IndexKey(x.field, v, key[2]) \notin DOMAIN kv']_vars

\* Process p takes a delete commit step that succeeds
DeleteCommits(p) ==
  (Leaves(p, "do_commit") \/ Leaves(p, "dm_commit")) /\ res'[p].status = "ok"

\* The ids of the documents that the step removes from the store
RemovedIds == {k[2] : k \in DocKeys(kv) \ DocKeys(kv')}

\* ------------------------------------------------------------------------
\* C12: a deleteOne or deleteMany commit removes, in the same step, every
\* index entry whose id component is the id of a document it deletes
\* (stated for calls that do not overlap).
\* ------------------------------------------------------------------------
C12_DeleteRemovesIndexEntries ==
  [][\A p \in Procs :
       (serial /\ DeleteCommits(p)) =>
         \A k \in IndexEntryKeys(kv') : k[5] \notin RemovedIds]_vars

\* A matched document of deleteMany whose entry no longer carries the
\* version at which find read it
ChangedSinceRead(p) ==
  \E d \in DOMAIN loc[p].docs :
    KvGet(getKvKey(loc[p].docs[d]._id)).versionstamp # loc[p].docsVs[d]

\* ------------------------------------------------------------------------
\* C13: when the version of a matched document has changed since
\* deleteMany read it, the commit of deleteMany fails with the
\* concurrent-modification error and deletes nothing.
\* ------------------------------------------------------------------------
C13_DeleteManyAllOrNothing ==
  [][\A p \in Procs :
       (Leaves(p, "dm_commit") /\ ChangedSinceRead(p)) =>
         /\ kv' = kv
         /\ res'[p].status = "error"
         /\ res'[p].error = "Failed to delete documents - concurrent modification detected"]_vars

\* ------------------------------------------------------------------------
\* C14: the deletedCount that deleteOne or deleteMany returns is the
\* number of documents its commit removed from the store.
\* ------------------------------------------------------------------------
C14_DeletedCountIsRemoved ==
  [][\A p \in Procs :
       DeleteCommits(p) => res'[p].ret.deletedCount = Cardinality(RemovedIds)]_vars

\* ------------------------------------------------------------------------
\* C15: the commit of an updateOne or updateMany without upsert never
\* creates a primary entry.
\* ------------------------------------------------------------------------
C15_UpdateNeverCreates ==
  [][\A p \in Procs :
       ((Leaves(p, "uo_commit") \/ Leaves(p, "um_commit")) /\ ~op[p].upsert)
         => DocKeys(kv') \subseteq DocKeys(kv)]_vars

\* The fields that a sparse index of the store covers
SparseFields(store) == {x.field : x \in {y \in IndexedFields(store) : y.sparse}}

\* ------------------------------------------------------------------------
\* C16: in every reachable state no entry of a sparse index has the
\* missing-value sentinel "" as its serialized value.
\* ------------------------------------------------------------------------
C16_SparseHasNoMissingEntry ==
  \A k \in IndexEntryKeys(kv) : k[3] \in SparseFields(kv) => k[4] # ""

\* createIndex of p throws the duplicate-key error out of the backfill
BackfillFails(p) ==
  /\ op[p].name = "createIndex"
  /\ Leaves(p, "uie_check")
  /\ res'[p].status = "error"

\* ------------------------------------------------------------------------
\* C17: when the backfill of a unique createIndex meets a duplicate, the
\* call fails with the duplicate-key error and nothing it wrote, neither
\* the metadata entry nor an index entry, is left in the store.
\* ------------------------------------------------------------------------
C17_FailedCreateIndexCleansUp ==
  [][\A p \in Procs :
       BackfillFails(p) =>
         /\ res'[p].error = DupKeyField[UieInfo(p).spec.key[loc[p].j]]
         /\ \A k \in loc[p].wrote : k \notin DOMAIN kv']_vars

\* The fields of the index that the dropIndex step of p drops
DroppedFields(p) ==
  LET indexKey == IndexMetaKey(op[p].indexName)
  IN IF indexKey \in DOMAIN kv
       THEN {kv[indexKey].value.spec.key[j] : j \in DOMAIN kv[indexKey].value.spec.key}
       ELSE {}

\* ------------------------------------------------------------------------
\* C18: when dropIndex returns, the metadata entry of the index and every
\* index entry under a field of its spec are gone from the store (stated
\* for calls that do not overlap).
\* ------------------------------------------------------------------------
C18_DropIndexRemovesEntries ==
  [][\A p \in Procs :
       (serial /\ Leaves(p, "di_delete")) =>
         /\ IndexMetaKey(op[p].indexName) \notin DOMAIN kv'
         /\ \A k \in IndexEntryKeys(kv') : k[3] \notin DroppedFields(p)]_vars

\* The primary key of document k of the batch of p
BatchKey(p, k) == getKvKey(IdOf(op[p].docs[k], loc[p].call))

\* The position of the document at which the ordered insertMany of p
\* failed: the one of the last error recorded, or the first invalid
\* document when the validation threw
FirstFailing(p) ==
  IF res[p].error = "Invalid document"
    THEN CHOOSE k \in DOMAIN op[p].docs :
           /\ IsInvalid(op[p].docs[k])
           /\ \A j \in 1..(k - 1) : ~IsInvalid(op[p].docs[j])
    ELSE loc[p].errors[Len(loc[p].errors)].index + 1

\* ------------------------------------------------------------------------
\* C19: an ordered insertMany that fails has committed exactly the
\* documents that precede the first failing document, in input order, and
\* they are in the store when the call has run alone.
\* ------------------------------------------------------------------------
C19_OrderedHaltsAtFirstFailure ==
  \A p \in Procs :
    (op[p].name = "insertMany" /\ op[p].ordered /\ res[p].status = "error") =>
      LET k == FirstFailing(p)
      IN /\ loc[p].ids = [j \in 1..(k - 1) |-> IdOf(op[p].docs[j], loc[p].call)]
         /\ loc[p].wrote = {BatchKey(p, j) : j \in 1..(k - 1)}
         /\ LatestAlone(p) => \A j \in 1..(k - 1) : BatchKey(p, j) \in DOMAIN kv

\* The positions (from 0) of the documents that the insertMany of p has
\* not committed
FailedPositions(l, o) ==
  {k - 1 : k \in {j \in DOMAIN o.docs :
                    IsInvalid(o.docs[j]) \/ getKvKey(IdOf(o.docs[j], l.call)) \notin l.wrote}}

OthersIdle(p) == \A q \in Procs \ {p} : pc[q] = "idle"

\* The step of p records an error for document k of its batch
FailsNow(p, k) ==
  /\ k \in DOMAIN op[p].docs
  /\ \E e \in DOMAIN loc'[p].errors : loc'[p].errors[e].index = k - 1
  /\ ~\E e \in DOMAIN loc[p].errors : loc[p].errors[e].index = k - 1

\* The fields under a unique index in the list of indexes that insertDoc
\* k of p has read
ListedUniqueFields(p, k) ==
  LET idx == loc[p].tasks[k].idx
  IN {idx[a[1]].spec.key[a[2]] : a \in UniquePositions(idx)}

\* The document is invalid, its _id is committed, or another document of
\* the store has its value of a uniquely indexed field
Conflicts(p, k) ==
  LET doc == op[p].docs[k]
  IN \/ IsInvalid(doc)
     \/ BatchKey(p, k) \in DOMAIN kv
     \/ \E d \in DocKeys(kv), field \in UniqueFields(kv) \cup ListedUniqueFields(p, k) :
          /\ d # BatchKey(p, k)
          /\ SerializedField(kv[d].value, field) = SerializedField(doc, field)

\* ------------------------------------------------------------------------
\* C20: an unordered insertMany returns a result: insertedCount is the
\* number of documents it committed, writeErrors holds exactly one entry
\* for every document it did not commit, with the document's position,
\* and a document gets an error only when it is invalid or conflicts
\* (the last part stated for steps taken while no other call is running).
\* ------------------------------------------------------------------------
C20_UnorderedAttemptsAll ==
  [][\A p \in Procs :
       (op[p].name = "insertMany" /\ ~op[p].ordered) =>
         /\ (pc[p] # "idle" /\ pc'[p] = "idle") =>
              /\ res'[p].status = "ok"
              /\ res'[p].ret.insertedCount = Cardinality(DocKeys(kv') \cap loc'[p].wrote)
                                            + Cardinality(loc'[p].wrote \ DOMAIN kv')
              /\ res'[p].ret.insertedCount = Len(res'[p].ret.insertedIds)
              /\ {res'[p].ret.insertedIds[i] : i \in DOMAIN res'[p].ret.insertedIds}
                   = {deserializeObjectId(k[2]) : k \in loc'[p].wrote}
              /\ {res'[p].ret.writeErrors[e].index : e \in DOMAIN res'[p].ret.writeErrors}
                   = FailedPositions(loc'[p], op[p])
              /\ Len(res'[p].ret.writeErrors) = Cardinality(FailedPositions(loc'[p], op[p]))
         /\ \A k \in 1..MaxBatch :
              (FailsNow(p, k) /\ OthersIdle(p)) => Conflicts(p, k)]_vars

\* The version check of the updateMany commit of p fails
UpdateManyCheckFails(p) ==
  /\ Leaves(p, "um_commit")
  /\ KvGet(getKvKey(loc[p].docs[loc[p].d]._id)).versionstamp # loc[p].vs

\* ------------------------------------------------------------------------
\* C21: when the batch of one document of updateMany fails its version
\* check, the failure is recorded in writeErrors with the document's
\* index, the store is not changed and the document is not counted in
\* modifiedCount.
\* ------------------------------------------------------------------------
C21_UpdateManyReportsFailure ==
  [][\A p \in Procs :
       UpdateManyCheckFails(p) =>
         /\ kv' = kv
         /\ loc'[p].count = loc[p].count
         /\ \E e \in DOMAIN loc'[p].errors : loc'[p].errors[e].index = loc[p].d - 1]_vars

\* The kind of failure that an error message names
ErrorKind(msg) ==
  CASE msg \in {"Duplicate key error", DupKeyField["f"]} -> "duplicate-key"
    [] msg \in {"Failed to delete document - concurrent modification detected",
                "Failed to delete documents - concurrent modification detected"}
         -> "concurrent-modification"
    [] OTHER -> "other"

\* The commit of p at label at fails: the step leaves the store as it is
\* and the call throws
CommitFails(p, at) == Leaves(p, at) /\ res'[p].status = "error"

\* ------------------------------------------------------------------------
\* C22: an insertOne whose commit fails because the primary key exists
\* reports duplicate-key; an updateOne, deleteOne or deleteMany whose
\* version check fails reports concurrent-modification.
\* ------------------------------------------------------------------------
C22_CommitFailureKinds ==
  [][\A p \in Procs :
       /\ CommitFails(p, "io_commit") => ErrorKind(res'[p].error) = "duplicate-key"
       /\ (CommitFails(p, "uo_commit") \/ CommitFails(p, "do_commit")
             \/ CommitFails(p, "dm_commit"))
            => ErrorKind(res'[p].error) = "concurrent-modification"]_vars

\* ------------------------------------------------------------------------
\* Calls on a collection that already has a document and an index
\* ------------------------------------------------------------------------
\* The store after createIndex("f", {unique: true}) and
\* insertOne({_id: 1, f: "x", n: 0}) on an empty collection
IndexedStore ==
  (IndexMetaKey("f_1") :>
     [value |-> [spec |-> UniqueF.spec, options |-> UniqueF.options], versionstamp |-> 1])
  @@ (getKvKey(1) :>
     [value |-> [_id |-> serializeObjectId(1), f |-> "x", n |-> 0], versionstamp |-> 1])
  @@ (IndexKey("f", "x", serializeObjectId(1)) :>
     [value |-> [_id |-> serializeObjectId(1)], versionstamp |-> 1])

InitRound ==
  /\ kv = IndexedStore
  /\ writes = [k \in DOMAIN IndexedStore |-> 1]
  /\ pc = [p \in Procs |-> "idle"]
  /\ op = [p \in Procs |-> NoOp]
  /\ loc = [p \in Procs |-> LocInit(0)]
  /\ res = [p \in Procs |-> NoRes]
  /\ nops = 0
  /\ serial = TRUE

DocNoId == [f |-> "y", n |-> 0]

SetId == "$set" :> [_id |-> 2]

MenuRound ==
  << [name |-> "insertOne", doc |-> DocNoId],
     [name |-> "insertOne", doc |-> DocY(2)],
     [name |-> "insertOne", doc |-> DocX(2)],
     [name |-> "findOne", filter |-> [_id |-> Lit(1)]],
     [name |-> "findOne", filter |-> [_id |-> Lit(2)]],
     [name |-> "findOne", filter |-> [_id |-> Lit(generateId(1))]],
     [name |-> "updateOne", filter |-> [_id |-> Lit(2)], update |-> IncN, upsert |-> TRUE],
     [name |-> "updateOne", filter |-> [_id |-> Lit(1), n |-> Lit(5)], update |-> IncN,
      upsert |-> FALSE],
     [name |-> "updateMany", filter |-> [f |-> Lit("x")], update |-> SetId, upsert |-> FALSE],
     [name |-> "deleteOne", filter |-> [_id |-> Lit(1)]],
     [name |-> "deleteMany", filter |-> [f |-> Lit("x")]],
     [name |-> "find", filter |-> [f |-> Lit("x")]],
     [name |-> "insertMany", docs |-> <<DocX(3)>>, ordered |-> TRUE],
     [name |-> "dropIndex", indexName |-> "f_1"],
     UniqueF >>

NextRound == NextOf(MenuRound)

SpecRound == InitRound /\ [][NextRound]_vars

\* Call q is the call before the latest one, which p made and which ran
\* alone, as did all calls before it
Follows(p, q) == LatestAlone(p) /\ q # p /\ loc[q].call = nops - 1

\* Call q was updateOne with upsert and an ObjectId _id that found no
\* document, and it has returned
Upserted(q) ==
  /\ op[q].name = "updateOne"
  /\ op[q].upsert
  /\ HasObjectId(op[q].filter)
  /\ res[q].status = "ok"
  /\ ~loc[q].found

UpsertedDoc(q) == applyUpdateOperators([_id |-> op[q].filter._id.lit], op[q].update)

\* ------------------------------------------------------------------------
\* C23: updateOne with upsert and filter {_id: X} that finds no document
\* at X writes exactly the primary entry of X, returns matchedCount 0,
\* modifiedCount 1, upsertedCount 1 and upsertedId X, the stored document
\* is {_id: X} with the update applied, and a findOne({_id: X}) that
\* follows returns it.
\* ------------------------------------------------------------------------
C23_UpsertInsertsAndIsFound ==
  \A q \in Procs :
    Upserted(q) =>
      LET X == op[q].filter._id.lit
      IN /\ res[q].ret.matchedCount = 0
         /\ res[q].ret.modifiedCount = 1
         /\ res[q].ret.upsertedCount = 1
         /\ res[q].ret.upsertedId = X
         /\ loc[q].wrote = {getKvKey(X)}
         /\ LatestAlone(q) =>
              /\ getKvKey(X) \in DOMAIN kv
              /\ AsDocument(kv[getKvKey(X)].value) = UpsertedDoc(q)
         /\ \A p \in Procs :
              (Follows(p, q) /\ op[p].name = "findOne" /\ op[p].filter = [_id |-> Lit(X)])
                => (res[p].ret.found /\ res[p].ret.doc = UpsertedDoc(q))

\* a findOne({_id: X}) has followed an upsert at X
C23_Witness ==
  \E p \in Procs, q \in Procs :
    /\ Upserted(q)
    /\ Follows(p, q)
    /\ op[p].name = "findOne"
    /\ op[p].filter = [_id |-> Lit(op[q].filter._id.lit)]

\* p runs updateOne without upsert or deleteOne
UpdatesOrDeletesOne(p) ==
  \/ op[p].name = "deleteOne"
  \/ (op[p].name = "updateOne" /\ ~op[p].upsert)

\* ------------------------------------------------------------------------
\* C24: while no document of the store matches the filter, no step of an
\* updateOne without upsert or of a deleteOne changes the store, and the
\* call returns zero counts without an error (stated for calls that do
\* not overlap).
\* ------------------------------------------------------------------------
C24_NoMatchChangesNothing ==
  [][\A p \in Procs :
       (/\ serial
        /\ pc[p] # "idle"
        /\ UpdatesOrDeletesOne(p)
        /\ ScanMatches(kv, op[p].filter) = {}
        /\ (pc'[p] # pc[p] \/ loc'[p] # loc[p]))
         => /\ kv' = kv
            /\ pc'[p] = "idle" =>
                 /\ res'[p].status = "ok"
                 /\ op[p].name = "updateOne" =>
                      (res'[p].ret.matchedCount = 0 /\ res'[p].ret.modifiedCount = 0)
                 /\ op[p].name = "deleteOne" => res'[p].ret.deletedCount = 0]_vars

\* Call q was an insertOne that has returned
Inserted(q) == op[q].name = "insertOne" /\ res[q].status = "ok"

\* ------------------------------------------------------------------------
\* C25: insertOne(d) returns the _id d carries, or a generated one when d
\* carries none, and a findOne({_id: insertedId}) that follows returns a
\* document equal to d with _id set to the inserted id.
\* ------------------------------------------------------------------------
C25_InsertThenFindRoundTrip ==
  \A q \in Procs :
    Inserted(q) =>
      LET id == res[q].ret.insertedId
      IN /\ Has(op[q].doc, "_id") => id = op[q].doc._id
         /\ \A p \in Procs :
              (Follows(p, q) /\ op[p].name = "findOne" /\ op[p].filter = [_id |-> Lit(id)])
                => /\ res[p].ret.found
                   /\ DOMAIN res[p].ret.doc = DOMAIN op[q].doc \cup {"_id"}
                   /\ res[p].ret.doc._id = id
                   /\ \A k \in DOMAIN op[q].doc : res[p].ret.doc[k] = op[q].doc[k]

\* a findOne by the generated id has followed the insertOne of a document
\* that carried no _id
C25_Witness ==
  \E p \in Procs, q \in Procs :
    /\ Inserted(q)
    /\ ~Has(op[q].doc, "_id")
    /\ Follows(p, q)
    /\ op[p].name = "findOne"
    /\ op[p].filter = [_id |-> Lit(res[q].ret.insertedId)]

\* Call q was a deleteOne that removed a document
DeletedOne(q) ==
  /\ op[q].name = "deleteOne"
  /\ res[q].status = "ok"
  /\ res[q].ret.deletedCount = 1

\* p's findOne({_id: k}) reads the store now; the call began after q's
\* deleteOne of k began, q has returned, and no other call has begun since
ReadsAfterDelete(p, q) ==
  /\ op[p].name = "findOne"
  /\ pc[p] = "fo_get"
  /\ pc'[p] = "idle"
  /\ q # p
  /\ pc[q] = "idle"
  /\ DeletedOne(q)
  /\ loc[p].call = nops
  /\ loc[q].call = nops - 1
  /\ op[p].filter = [_id |-> Lit(loc[q].doc._id)]

\* ------------------------------------------------------------------------
\* C26: after deleteOne({_id: k}) has succeeded, a findOne({_id: k}) that
\* begins next and reads the store after the delete returned finds
\* nothing.
\* ------------------------------------------------------------------------
C26_DeletedIsNeverFound ==
  [][\A p \in Procs, q \in Procs :
       ReadsAfterDelete(p, q) => ~res'[p].ret.found]_vars

\* ------------------------------------------------------------------------
\* C27: the _id inside every stored document is the id of the primary key
\* it is stored under, also after an update whose $set targets _id and
\* after an upsert.
\* ------------------------------------------------------------------------
C27_StoredIdIsKeyId ==
  \A d \in DocKeys(kv) : kv[d].value._id = d[2]

\* an update whose $set targets _id has been committed
C27_Witness ==
  \E p \in Procs :
    /\ op[p].name = "updateMany"
    /\ op[p].update = SetId
    /\ res[p].status = "ok"
    /\ res[p].ret.modifiedCount = 1

\* ------------------------------------------------------------------------
\* Queries over a store that inserts and createIndex have filled: any
\* of the documents 1 and 2, an index on f, on n, on both or on neither,
\* and one index entry per document and index
\* ------------------------------------------------------------------------
QueryIds == {1, 2}
QueryNumbers == {2, 9, 10}
QueryF == [i \in QueryIds |-> IF i = 1 THEN "x" ELSE "y"]

PlainIndex(field) ==
  [spec |-> [key |-> <<field>>], options |-> [unique |-> FALSE, sparse |-> FALSE]]

QueryStore(ns, fields) ==
  LET docKeys == {getKvKey(i) : i \in DOMAIN ns}
      metaKeys == {IndexMetaKey(IndexNameTable[fl]) : fl \in fields}
      fKeys == IF "f" \in fields
                 THEN {IndexKey("f", QueryF[i], serializeObjectId(i)) : i \in DOMAIN ns}
                 ELSE {}
      nKeys == IF "n" \in fields
                 THEN {IndexKey("n", NumberKeyPart(ns[i]), serializeObjectId(i)) :
                         i \in DOMAIN ns}
                 ELSE {}
      value(k) ==
        CASE Len(k) = 2 ->
               [_id |-> k[2], f |-> QueryF[deserializeObjectId(k[2])],
                n |-> ns[deserializeObjectId(k[2])]]
          [] Len(k) = 3 -> PlainIndex(CHOOSE fl \in fields : IndexNameTable[fl] = k[3])
          [] Len(k) = 5 -> [_id |-> k[5]]
  IN [k \in docKeys \cup metaKeys \cup fKeys \cup nKeys |->
        [value |-> value(k), versionstamp |-> 1]]

InitQuery ==
  /\ \E present \in SUBSET QueryIds :
       \E ns \in [present -> QueryNumbers] :
         \E fields \in SUBSET {"f", "n"} :
           /\ kv = QueryStore(ns, fields)
           /\ writes = [k \in DOMAIN QueryStore(ns, fields) |-> 1]
  /\ pc = [p \in Procs |-> "idle"]
  /\ op = [p \in Procs |-> NoOp]
  /\ loc = [p \in Procs |-> LocInit(0)]
  /\ res = [p \in Procs |-> NoRes]
  /\ nops = 0
  /\ serial = TRUE

MenuQuery ==
  << [name |-> "find", filter |-> [n |-> ("$gte" :> 9)],
      sort |-> [field |-> "n", direction |-> 0 - 1]],
     [name |-> "find", filter |-> [n |-> ("$gte" :> 2 @@ "$lt" :> 10)],
      sort |-> [field |-> "n", direction |-> 1]],
     [name |-> "find", filter |-> [f |-> ("$in" :> <<"x", "y">>)]],
     [name |-> "countDocuments", filter |-> <<>>],
     [name |-> "estimatedDocumentCount"] >>

NextQuery ==
  \E p \in Procs :
    \/ Start(p, MenuQuery)
    \/ FindListIndexes(p)
    \/ FindIndexList(p)
    \/ FindIndexRangeList(p)
    \/ FindIndexGet(p)
    \/ FindScan(p)
    \/ EstimatedDocumentCount(p)

SpecQuery == InitQuery /\ [][NextQuery]_vars

\* p's find has returned
Found(p) == op[p].name = "find" /\ res[p].status = "ok"

ReturnedDocs(p) == {res[p].ret.docs[i] : i \in DOMAIN res[p].ret.docs}

\* the documents are in the order of the sort
InSortOrder(docs, sort) ==
  \A i \in DOMAIN docs : \A j \in DOMAIN docs :
    i < j => IF sort.direction = 1 THEN docs[i][sort.field] <= docs[j][sort.field]
             ELSE docs[i][sort.field] >= docs[j][sort.field]

\* ------------------------------------------------------------------------
\* C28: a find with $gt/$gte/$lt/$lte bounds on the numeric field n that
\* has gone through the single-field index on n returns exactly the
\* documents whose n lies within the bounds, each once, in the order of
\* the sort.
\* ------------------------------------------------------------------------
C28_RangeFindIsExact ==
  \A p \in Procs :
    (/\ Found(p)
     /\ Has(op[p].filter, "n")
     /\ isRangeQuery(op[p].filter.n)
     /\ loc[p].used = PlainIndex("n"))
      => /\ ReturnedDocs(p) = ScanMatches(kv, op[p].filter)
         /\ Len(res[p].ret.docs) = Cardinality(ScanMatches(kv, op[p].filter))
         /\ InSortOrder(res[p].ret.docs, op[p].sort)

\* p's count has returned
Counted(p, name) == op[p].name = name /\ res[p].status = "ok"

\* ------------------------------------------------------------------------
\* C29: estimatedDocumentCount returns the number of documents stored in
\* the collection, and so does countDocuments({}), whatever indexes are
\* declared (the store does not change while the counts run).
\* ------------------------------------------------------------------------
C29_EstimatedCountIsDocumentCount ==
  \A p \in Procs :
    /\ Counted(p, "estimatedDocumentCount") => res[p].ret.count = Cardinality(DocKeys(kv))
    /\ Counted(p, "countDocuments") => res[p].ret.count = Cardinality(DocKeys(kv))

\* ------------------------------------------------------------------------
\* C30: find({f: {$in: [a, b, ...]}}) returns every document whose f
\* equals one of the listed values, also when it goes through the
\* single-field index on f.
\* ------------------------------------------------------------------------
C30_InReturnsEveryMatch ==
  \A p \in Procs :
    (/\ Found(p)
     /\ Has(op[p].filter, "f")
     /\ "$in" \in DOMAIN op[p].filter.f)
      => \A d \in DocKeys(kv) :
           (\E k \in DOMAIN op[p].filter.f["$in"] :
              kv[d].value.f = op[p].filter.f["$in"][k])
             => AsDocument(kv[d].value) \in ReturnedDocs(p)

\* ------------------------------------------------------------------------
\* The operators on documents and filters, applied to values of every
\* kind. The documents of the store above are flat, with a string f and
\* a number n; here a value carries its kind, so that arrays, nested
\* mappings, null and undefined can be told apart.
\* ------------------------------------------------------------------------
MaxLen == 2

Num(n) == [kind |-> "number", data |-> n]
Str(s) == [kind |-> "string", data |-> s]
Arr(a) == [kind |-> "array", data |-> a]
Obj(o) == [kind |-> "object", data |-> o]
Null == [kind |-> "null", data |-> 0]
Undef == [kind |-> "undefined", data |-> 0]

\* !value
Falsy(v) ==
  \/ v.kind \in {"undefined", "null"}
  \/ (v.kind = "number" /\ v.data = 0)
  \/ (v.kind = "string" /\ v.data = "")

\* current[part] for a part that is a field name
Member(current, part) ==
  IF current.kind = "object" /\ part \in DOMAIN current.data THEN current.data[part]
  ELSE Undef

\* delete current[part] for a part that is a field name
Delete(current, part) ==
  IF current.kind = "object"
    THEN Obj([k \in (DOMAIN current.data) \ {part} |-> current.data[k]])
    ELSE current

\* applyUpdateOperators, $unset of one path: walk the parts but the last
\* while current[parts[i]] is truthy, then delete the last part from
\* wherever the walk stopped
RECURSIVE unsetFrom(_, _, _)
unsetFrom(current, parts, i) ==
  IF i = Len(parts) THEN Delete(current, parts[i])
  ELSE IF Falsy(Member(current, parts[i])) THEN Delete(current, parts[Len(parts)])
  ELSE Obj([current.data EXCEPT ![parts[i]] = unsetFrom(@, parts, i + 1)])

unset(doc, parts) == unsetFrom(doc, parts, 1)

\* The path leads to a field of the document
RECURSIVE PathExistsFrom(_, _, _)
PathExistsFrom(current, parts, i) ==
  /\ current.kind = "object"
  /\ parts[i] \in DOMAIN current.data
  /\ (i < Len(parts) => PathExistsFrom(current.data[parts[i]], parts, i + 1))

PathExists(doc, parts) == PathExistsFrom(doc, parts, 1)

\* The caller of the operators
Caller == 1

\* The calls of a function on the inputs, a call that has not returned,
\* its input, and the result it returns
CallsOf(name, inputs) == {[name |-> name, input |-> i] : i \in inputs}
Pending(name) == op[Caller].name = name /\ res[Caller] = NoRes
Input == op[Caller].input
Gave(result) == [res EXCEPT ![Caller] = [status |-> "ok", error |-> "", ret |-> result]]

Calls(name) == op[Caller].name = name /\ res[Caller].status = "ok"

UnsetDocs ==
  {Obj([name |-> Str("a"), b |-> Num(1)]),
   Obj([name |-> Str("a"), x |-> Obj([y |-> Num(1)])]),
   Obj([name |-> Str("a"), x |-> Obj([name |-> Str("b")])]),
   Obj([name |-> Str("a"), x |-> Num(0)]),
   Obj([name |-> Str("a"), x |-> Num(5)]),
   Obj([name |-> Str("a"), x |-> Null]),
   Obj([name |-> Str("a"), x |-> Arr(<<Num(1)>>)]),
   Obj([b |-> Num(1)])}

UnsetPaths ==
  {<<"name">>, <<"b">>, <<"x">>, <<"z">>, <<"x", "name">>, <<"x", "y">>, <<"z", "name">>,
   <<"x", "y", "name">>, <<"z", "y", "b">>}

UnsetCalls ==
  CallsOf("$unset", {[doc |-> doc, parts |-> parts] : doc \in UnsetDocs, parts \in UnsetPaths})

ApplyUnset ==
  /\ Pending("$unset")
  /\ res' = Gave(unset(Input.doc, Input.parts))
  /\ UNCHANGED <<kv, writes, pc, op, loc, nops, serial>>

\* ------------------------------------------------------------------------
\* C31: $unset of a path that does not exist in the document, because
\* the last field or a mapping on the way is absent, leaves the document
\* as it was.
\* ------------------------------------------------------------------------
C31_UnsetOfAbsentPathChangesNothing ==
  (Calls("$unset") /\ ~PathExists(op[Caller].input.doc, op[Caller].input.parts))
    => res[Caller].ret = op[Caller].input.doc

\* isEqual: the same primitive, or arrays and objects that are equal part
\* by part; an array and an object are compared by their keys, and the
\* keys of an array are its indexes
RECURSIVE isEqual(_, _)
isEqual(a, b) ==
  CASE a.kind = b.kind /\ a.kind \in {"number", "string"} -> a.data = b.data
    [] a.kind = b.kind /\ a.kind \in {"null", "undefined"} -> TRUE
    [] a.kind = "array" /\ b.kind = "array" ->
         /\ Len(a.data) = Len(b.data)
         /\ \A i \in DOMAIN a.data : isEqual(a.data[i], b.data[i])
    [] a.kind = "object" /\ b.kind = "object" ->
         /\ Cardinality(DOMAIN a.data) = Cardinality(DOMAIN b.data)
         /\ \A k \in DOMAIN a.data : k \in DOMAIN b.data /\ isEqual(a.data[k], b.data[k])
    [] a.kind = "array" /\ b.kind = "object" -> Len(a.data) = 0 /\ DOMAIN b.data = {}
    [] a.kind = "object" /\ b.kind = "array" -> DOMAIN a.data = {} /\ Len(b.data) = 0
    [] OTHER -> FALSE

\* array.some(item => this.isEqual(item, value))
SomeEqual(array, value) == \E i \in DOMAIN array : isEqual(array[i], value)

\* applyUpdateOperators, $addToSet of one value at a top-level path: a
\* field that holds no array is set to [], the value is pushed unless an
\* item of the array is equal to it
addToSetPush(doc, path, value) ==
  LET array == IF Member(doc, path).kind = "array" THEN Member(doc, path).data ELSE <<>>
  IN Obj([k \in (DOMAIN doc.data) \cup {path} |->
            IF k = path THEN Arr(Append(array, value)) ELSE doc.data[k]])
addToSet(doc, path, value) ==
  LET array == IF Member(doc, path).kind = "array" THEN Member(doc, path).data ELSE <<>>
  IN Obj([k \in (DOMAIN doc.data) \cup {path} |->
            IF k = path
              THEN Arr(IF SomeEqual(array, value) THEN array ELSE Append(array, value))
              ELSE doc.data[k]])

Items == {Num(1), Str("a"), Null, Arr(<<>>), Obj(<<>>), Obj([a |-> Num(1)])}

Arrays == UNION {[1..n -> Items] : n \in 0..MaxLen}

AddToSetDocs ==
  {Obj([name |-> Str("a")]), Obj([name |-> Str("a"), tags |-> Num(1)])}
    \cup {Obj([name |-> Str("a"), tags |-> Arr(a)]) : a \in Arrays}

AddToSetCalls ==
  CallsOf("$addToSet", {[value |-> value, doc |-> doc] : value \in Items, doc \in AddToSetDocs})

ApplyAddToSet ==
  /\ Pending("$addToSet")
  /\ res' = Gave([once |-> addToSet(Input.doc, "tags", Input.value),
                  twice |-> addToSet(addToSet(Input.doc, "tags", Input.value),
                                     "tags", Input.value)])
  /\ UNCHANGED <<kv, writes, pc, op, loc, nops, serial>>

isComparableKind(v) == v.kind \in {"number", "string"}

\* The strings of the inputs in the order of their code units
StringRank(s) ==
  LET StringOrder == <<"", "10", "3", "a">>
  IN CHOOSE i \in DOMAIN StringOrder : StringOrder[i] = s

\* Number(v): <<n>>, or <<>> for NaN
ToNumber(v) ==
  IF v.kind = "number" THEN <<v.data>>
  ELSE IF \E i \in KeyNumbers : ToString(i) = v.data
    THEN <<CHOOSE i \in KeyNumbers : ToString(i) = v.data>>
  ELSE <<>>

\* a < b and a <= b of JavaScript for numbers and strings: two strings
\* are compared as strings, otherwise both sides are turned into numbers
\* and NaN compares false
LessThan(a, b) ==
  IF a.kind = "string" /\ b.kind = "string" THEN StringRank(a.data) < StringRank(b.data)
  ELSE /\ ToNumber(a) # <<>>
       /\ ToNumber(b) # <<>>
       /\ ToNumber(a)[1] < ToNumber(b)[1]

LessOrEqual(a, b) ==
  IF a.kind = "string" /\ b.kind = "string" THEN StringRank(a.data) <= StringRank(b.data)
  ELSE /\ ToNumber(a) # <<>>
       /\ ToNumber(b) # <<>>
       /\ ToNumber(a)[1] <= ToNumber(b)[1]

\* matchesCondition for an object of operators: an array value matches
\* when one of its items does
RECURSIVE matchesOperators(_, _)
matchesOperators(value, condition) ==
  IF value.kind = "array"
    THEN \E i \in DOMAIN value.data : matchesOperators(value.data[i], condition)
  ELSE \A o \in DOMAIN condition :
         CASE o = "$eq" -> isEqual(value, condition[o])
           [] o = "$gt" -> /\ isComparableKind(value) /\ isComparableKind(condition[o])
                           /\ LessThan(condition[o], value)
           [] o = "$gte" -> /\ isComparableKind(value) /\ isComparableKind(condition[o])
                            /\ LessOrEqual(condition[o], value)
           [] o = "$lt" -> /\ isComparableKind(value) /\ isComparableKind(condition[o])
                           /\ LessThan(value, condition[o])
           [] o = "$lte" -> /\ isComparableKind(value) /\ isComparableKind(condition[o])
                            /\ LessOrEqual(value, condition[o])
           [] o = "$exists" -> condition[o] = (value.kind # "undefined")

Comparables == {Num(3), Num(5), Num(10), Str("10"), Str("3"), Str("a")}

Resolved ==
  Comparables \cup {Undef, Null, Arr(<<>>), Arr(<<Null>>), Arr(<<Num(5)>>), Obj([a |-> Num(1)])}

OrderedCalls ==
  CallsOf("ordered", {[value |-> value, operand |-> operand, operator |-> o] :
                        value \in Resolved, operand \in Comparables, o \in RangeOps})

MatchOrdered ==
  /\ Pending("ordered")
  /\ res' = Gave([matches |-> matchesOperators(Input.value, Input.operator :> Input.operand)])
  /\ UNCHANGED <<kv, writes, pc, op, loc, nops, serial>>

ExistsCalls ==
  CallsOf("$exists", {[value |-> value, exists |-> exists] :
                        value \in Resolved, exists \in BOOLEAN})

MatchExists ==
  /\ Pending("$exists")
  /\ res' = Gave([matches |-> matchesOperators(Input.value, "$exists" :> Input.exists)])
  /\ UNCHANGED <<kv, writes, pc, op, loc, nops, serial>>

\* ------------------------------------------------------------------------
\* C33: $gt, $gte, $lt and $lte do not match when the value and the
\* operand are of different comparable kinds, a number against a string
\* or a string against a number.
\* ------------------------------------------------------------------------
C33_OrderedNeedsSameKind ==
  (/\ Calls("ordered")
   /\ isComparableKind(op[Caller].input.value)
   /\ op[Caller].input.value.kind # op[Caller].input.operand.kind)
    => ~res[Caller].ret.matches

\* ------------------------------------------------------------------------
\* C35: {$exists: true} matches iff the path resolved to a value, null
\* and arrays (also the empty array) included, and {$exists: false}
\* matches iff it resolved to none.
\* ------------------------------------------------------------------------
C35_ExistsIffResolved ==
  Calls("$exists") =>
    (res[Caller].ret.matches <=> (op[Caller].input.exists <=> op[Caller].input.value.kind # "undefined"))

\* matchesFilter over the entries of a filter in their order: an entry
\* is [key, condition], the condition of $and, $or and $nor is a list of
\* filters, any other key is a field of a flat document
RECURSIVE matchesEntriesFrom(_, _, _)
matchesEntriesFrom(doc, entries, i) ==
  IF i > Len(entries) THEN TRUE
  ELSE LET key == entries[i].key
           condition == entries[i].condition
           sub(k) == matchesEntriesFrom(doc, condition[k], 1)
       IN CASE key = "$or" ->
                 IF Len(condition) = 0 THEN TRUE
                 ELSE IF ~\E k \in DOMAIN condition : sub(k) THEN FALSE
                 ELSE matchesEntriesFrom(doc, entries, i + 1)
            [] key = "$and" ->
                 IF Len(condition) = 0 THEN TRUE
                 ELSE IF ~\A k \in DOMAIN condition : sub(k) THEN FALSE
                 ELSE matchesEntriesFrom(doc, entries, i + 1)
            [] key = "$nor" ->
                 IF Len(condition) = 0 THEN TRUE
                 ELSE IF \E k \in DOMAIN condition : sub(k) THEN FALSE
                 ELSE matchesEntriesFrom(doc, entries, i + 1)
            [] OTHER ->
                 IF ~matchesCondition(getNestedValue(doc, key), condition) THEN FALSE
                 ELSE matchesEntriesFrom(doc, entries, i + 1)

matchesEntries(doc, entries) == matchesEntriesFrom(doc, entries, 1)

FieldEntries ==
  {[key |-> "f", condition |-> Lit("x")], [key |-> "f", condition |-> Lit("y")],
   [key |-> "n", condition |-> Lit(0)]}

SubFilters == {<<>>} \cup {<<e>> : e \in FieldEntries}

ListEntries ==
  {[key |-> k, condition |-> l] :
     k \in {"$and", "$or", "$nor"},
     l \in {<<>>} \cup {<<a>> : a \in SubFilters} \cup {<<a, <<b>>>> : a \in SubFilters, b \in FieldEntries}}

OrderedFilters ==
  {<<a>> : a \in ListEntries} \cup {<<a, b>> : a \in ListEntries, b \in FieldEntries}
    \cup {<<b, a>> : a \in ListEntries, b \in FieldEntries}

FilterCalls ==
  CallsOf("matchesFilter", {[doc |-> doc, filter |-> entries] :
                              doc \in {DocX(1), DocY(2)}, entries \in OrderedFilters})

MatchFilter ==
  /\ Pending("matchesFilter")
  /\ res' = Gave([matches |-> matchesEntries(Input.doc, Input.filter),
                  each |-> [i \in DOMAIN Input.filter |->
                              matchesEntries(Input.doc, <<Input.filter[i]>>)]])
  /\ UNCHANGED <<kv, writes, pc, op, loc, nops, serial>>

\* ------------------------------------------------------------------------
\* C34: a document matches a filter iff it matches every top-level entry
\* of the filter taken alone, and an entry with an empty $and, $or or
\* $nor list is satisfied.
\* ------------------------------------------------------------------------
C34_FilterIsConjunctionOfEntries ==
  Calls("matchesFilter") =>
    /\ res[Caller].ret.matches <=> \A i \in DOMAIN res[Caller].ret.each : res[Caller].ret.each[i]
    /\ \A i \in DOMAIN op[Caller].input.filter :
         (/\ op[Caller].input.filter[i].key \in {"$and", "$or", "$nor"}
          /\ op[Caller].input.filter[i].condition = <<>>) => res[Caller].ret.each[i]

\* The documents to sort: the sort field n holds a number or is missing
SortDoc(id, n) ==
  IF n = <<>> THEN [f |-> "x", _id |-> id] ELSE [n |-> n[1], f |-> "x", _id |-> id]

SortInputs ==
  {[i \in 1..3 |-> [doc |-> SortDoc(i, ns[i])]] : ns \in [1..3 -> {<<>>, <<0>>, <<5>>}]}

SortCalls ==
  CallsOf("sortDocuments", {[results |-> results, direction |-> direction] :
                              results \in SortInputs, direction \in {1, -1}})

SortDocuments ==
  /\ Pending("sortDocuments")
  /\ res' = Gave([sorted |-> sortDocuments(Input.results,
                                           [field |-> "n", direction |-> Input.direction])])
  /\ UNCHANGED <<kv, writes, pc, op, loc, nops, serial>>

\* ------------------------------------------------------------------------
\* C37: a sort on one field orders the documents by the field in the
\* given direction, and the documents without the field are the minimum:
\* they come first when the direction is ascending and last when it is
\* descending.
\* ------------------------------------------------------------------------
C37_MissingSortsAsMinimum ==
  Calls("sortDocuments") =>
    LET sorted == res[Caller].ret.sorted
        missing(k) == "n" \notin DOMAIN sorted[k].doc
    IN \A j, k \in DOMAIN sorted :
         (j < k /\ missing(j) # missing(k)) =>
           IF op[Caller].input.direction = 1 THEN missing(j) ELSE missing(k)

\* findUsableIndex on a list of index specs: the key of the first one
\* that canUseIndexForQuery, <<>> for none
firstUsable(specs, filter) ==
  LET usable == {k \in DOMAIN specs : canUseIndexForQuery(specs[k], filter)}
  IN IF usable # {}
       THEN specs[CHOOSE k \in usable : \A o \in usable : k <= o].key
       ELSE <<>>

PlanIndexes ==
  {<<[key |-> <<"f", "n">>]>>, <<[key |-> <<"f", "n">>], [key |-> <<"n">>]>>,
   <<[key |-> <<"n">>], [key |-> <<"f", "n">>]>>}

PlanConditionsF ==
  {Lit("x"), "$eq" :> "x", "$in" :> <<"x", "y">>, "$gt" :> "x", "$ne" :> "x"}

PlanConditionsN == {Lit(0), "$gte" :> 0}

PlanFilters ==
  {[n |-> cn, f |-> cf] : cn \in PlanConditionsN, cf \in PlanConditionsF}
    \cup {[f |-> cf] : cf \in PlanConditionsF}
    \cup {[n |-> cn] : cn \in PlanConditionsN}

PlanCalls ==
  CallsOf("findUsableIndex", {[filter |-> filter, indexes |-> specs] :
                                filter \in PlanFilters, specs \in PlanIndexes})

PlanIndex ==
  /\ Pending("findUsableIndex")
  /\ res' = Gave([selected |-> firstUsable(Input.indexes, Input.filter)])
  /\ UNCHANGED <<kv, writes, pc, op, loc, nops, serial>>

\* ------------------------------------------------------------------------
\* C40: a compound index is selected only if its first field is in the
\* filter with a literal, $eq or $in and each of its other fields is in
\* the filter.
\* ------------------------------------------------------------------------
C40_CompoundNeedsExactFirstField ==
  (Calls("findUsableIndex") /\ Len(res[Caller].ret.selected) > 1) =>
    LET key == res[Caller].ret.selected
        filter == op[Caller].input.filter
    IN /\ Has(filter, key[1])
       /\ \/ IsLiteral(filter[key[1]])
          \/ DOMAIN filter[key[1]] \subseteq {"$eq", "$in"}
       /\ \A k \in 2..Len(key) : Has(filter, key[k])

\* ------------------------------------------------------------------------
\* C36: after an updateOne with upsert has inserted a new document, the
\* stored document holds the fields of $setOnInsert.
\* ------------------------------------------------------------------------
C36_SetOnInsertIsApplied ==
  \A q \in Procs :
    (Upserted(q) /\ LatestAlone(q) /\ "$setOnInsert" \in DOMAIN op[q].update) =>
      /\ getKvKey(op[q].filter._id.lit) \in DOMAIN kv
      /\ LET stored == kv[getKvKey(op[q].filter._id.lit)].value
             fields == op[q].update["$setOnInsert"]
         IN \A k \in DOMAIN fields : Has(stored, k) /\ stored[k] = fields[k]

\* ------------------------------------------------------------------------
\* C38: when the only calls made are insertOne and createIndex calls, one
\* by each caller and in any interleaving, and all of them have returned
\* without an error, every document has an entry for each field of each
\* index.
\* ------------------------------------------------------------------------
C38_InsertDuringBackfillIsIndexed ==
  (/\ AllIdle
   /\ nops = Cardinality({p \in Procs : op[p] # NoOp})
   /\ \A p \in Procs : op[p].name \in {"none", "insertOne", "createIndex"}
   /\ \A p \in Procs : op[p] # NoOp => res[p].status = "ok")
    => \A d \in DocKeys(kv), x \in IndexedFields(kv) :
         IndexKey(x.field, SerializedField(kv[d].value, x.field), d[2]) \in DOMAIN kv

\* ------------------------------------------------------------------------
\* C39: an insertOne fails with the duplicate-key error of the unique
\* index on f only if a stored document other than the inserted one has
\* the same value of f.
\* ------------------------------------------------------------------------
C39_NoSpuriousDuplicateKey ==
  \A p \in Procs :
    (/\ LatestAlone(p)
     /\ op[p].name = "insertOne"
     /\ res[p].status = "error"
     /\ res[p].error = DupKeyField["f"])
      => \E d \in DocKeys(kv) : getNestedValue(kv[d].value, "f") = getNestedValue(op[p].doc, "f")

\* One call of one function on one input is pending
OperatorCalls ==
  UnsetCalls \cup AddToSetCalls \cup OrderedCalls \cup ExistsCalls \cup FilterCalls
    \cup SortCalls \cup PlanCalls

InitOperators ==
  /\ kv = <<>>
  /\ writes = <<>>
  /\ pc = [p \in Procs |-> "idle"]
  /\ op \in {[p \in Procs |-> IF p = Caller THEN c ELSE NoOp] : c \in OperatorCalls}
  /\ loc = [p \in Procs |-> LocInit(0)]
  /\ res = [p \in Procs |-> NoRes]
  /\ nops = 0
  /\ serial = TRUE

NextOperators ==
  \/ ApplyUnset
  \/ ApplyAddToSet
  \/ MatchOrdered
  \/ MatchExists
  \/ MatchFilter
  \/ SortDocuments
  \/ PlanIndex

SpecOperators == InitOperators /\ [][NextOperators]_vars

====
